---------------------------- MODULE Spec2Model ----------------------------
(***************************************************************************)
(* secure-auth-helper: the password generator (passwordGenerator.ts), the  *)
(* password strength checker (passwordChecker.ts with its pattern data)    *)
(* and the email checker (EmailChecker.ts with its provider and role       *)
(* data), as a state machine whose actions are the public calls.           *)
(*                                                                         *)
(* A string is a sequence of one-character strings.  A call is atomic: it  *)
(* takes the program from pc = "idle" to pc = "returned", where op, args,  *)
(* result and draws describe the finished call; Return discards them.      *)
(* lastIndex is the state the module keeps between calls; prev is the      *)
(* check a caller has made just before it checks a longer password.        *)
(* The secure random source is an input: the tape of UInt32 values that    *)
(* crypto.randomBytes(4).readUInt32BE(0) returns, one per draw.            *)
(* The calls of the email functions are asynchronous: one that has to      *)
(* fetch the list of disposable domains waits in fetching and returns      *)
(* when its request settles.                                               *)
(***************************************************************************)
EXTENDS Integers, Sequences, FiniteSets, TLC

VARIABLES pc, op, args, result, draws, lastIndex, prev,
          disposableDomainsCache, lastFetchTime, clock, fetching

vars == <<pc, op, args, result, draws, lastIndex, prev,
          disposableDomainsCache, lastFetchTime, clock, fetching>>

\* The state of data/disposableEmailProviders.ts and the time of day
cacheVars == <<disposableDomainsCache, lastFetchTime, clock, fetching>>

(***************************************************************************)
(* Bounds of the model.                                                    *)
(***************************************************************************)
MaxLength == 5      \* largest options.length given to the generator
MaxSeed == 3        \* random tapes start at 0..MaxSeed
MaxStride == 3      \* and advance by 0..MaxStride per draw
MaxPwLen == 18      \* longest password given to the checker
MaxSuffix == 2      \* most characters typed between two checks
MaxWords == 2       \* largest wordCount given to generateMemorablePassword
SeedStep == 33      \* a tape of the word generator starts at a multiple of it
LongRepeats == 14   \* repetitions of a 12-character text in the longest password
MaxTicks == 2       \* the clock advances at most MaxTicks times
MaxInFlight == 2    \* most calls that await a fetch at the same time
MaxShuffle == 4     \* longest string given to shuffleString on its own
MaxRandom == 4      \* largest random value drawn for it

(***************************************************************************)
(* Strings.                                                                *)
(***************************************************************************)
RemoveChars(str, chars) == SelectSeq(str, LAMBDA c : c \notin chars)

Chars(str) == {str[i] : i \in 1..Len(str)}

\* F of the value of x, with x computed once, as `const v = x` does before
\* the statements that use v.
Const(x, F(_)) == CHOOSE r \in {F(v) : v \in {x}} : TRUE
Const2(x, y, F(_, _)) == CHOOSE r \in {F(v[1], v[2]) : v \in {<<x, y>>}} : TRUE

RECURSIVE Concat(_)
Concat(strs) == IF strs = <<>> THEN <<>> ELSE Head(strs) \o Concat(Tail(strs))

(***************************************************************************)
(* passwordGenerator.ts                                                    *)
(***************************************************************************)
LOWERCASE == <<"a","b","c","d","e","f","g","h","i","j","k","l","m",
               "n","o","p","q","r","s","t","u","v","w","x","y","z">>
UPPERCASE == <<"A","B","C","D","E","F","G","H","I","J","K","L","M",
               "N","O","P","Q","R","S","T","U","V","W","X","Y","Z">>
NUMBERS == <<"0","1","2","3","4","5","6","7","8","9">>
SYMBOLS == <<"!","@","#","$","%","^","&","*","(",")","_","+","-",
             "=","[","]","{","}","|",";",":",",",".","<",">","?">>
SIMILAR_CHARS == <<"0","O","1","l","I","|">>

DefaultLength == 12
MinimumLength == 4
Iterations == 5

InvalidLength == "Password length must be at least 4 characters"
NoCharacterClassSelected == "At least one character type must be enabled"

\* const { length = 12, numbers = true, ... } = options: an omitted field
\* takes its default.
Default(options, field, dflt) ==
    IF field \in DOMAIN options THEN options[field] ELSE dflt

\* The k-th value (k = 0, 1, ...) the random source returns during a call.
Rand(rnd, k) == rnd[k + 1]

GetSecureRandomInt(randomValue, max) == randomValue % max

GetRandomChar(charset, randomValue) ==
    charset[GetSecureRandomInt(randomValue, Len(charset)) + 1]

\* str.replace(new RegExp(char, 'g'), '') for one character of
\* SIMILAR_CHARS: the source "|" is the empty alternation, which matches
\* the empty string only, so nothing is removed; every other source is a
\* literal.
ReplaceRegExpOfChar(str, char) ==
    IF char = "|" THEN str ELSE RemoveChars(str, {char})

RECURSIVE RemoveSimilar(_, _)
RemoveSimilar(charset, i) ==
    IF i > Len(SIMILAR_CHARS) THEN charset
    ELSE RemoveSimilar(ReplaceRegExpOfChar(charset, SIMILAR_CHARS[i]), i + 1)

LowerSet(excludeSimilar) ==
    IF excludeSimilar THEN RemoveChars(LOWERCASE, {"0","O","1","l","I"})
    ELSE LOWERCASE

UpperSet(excludeSimilar) ==
    IF excludeSimilar THEN RemoveChars(UPPERCASE, {"0","O","1","l","I"})
    ELSE UPPERCASE

\* The digit pool with its filter left out.
NumberSetUnfiltered(excludeSimilar) == NUMBERS

NumberSet(excludeSimilar) ==
    IF excludeSimilar THEN RemoveChars(NUMBERS, {"0","O","1","l"})
    ELSE NUMBERS

SymbolSet(excludeSimilar) ==
    IF excludeSimilar THEN RemoveChars(SYMBOLS, {"|"})
    ELSE SYMBOLS

\* The pools of the enabled classes, in the order the code visits them.
EnabledSets(lowercase, uppercase, numbers, symbols, excludeSimilar) ==
    (IF lowercase THEN <<LowerSet(excludeSimilar)>> ELSE <<>>)
    \o (IF uppercase THEN <<UpperSet(excludeSimilar)>> ELSE <<>>)
    \o (IF numbers THEN <<NumberSet(excludeSimilar)>> ELSE <<>>)
    \o (IF symbols THEN <<SymbolSet(excludeSimilar)>> ELSE <<>>)

\* The combined pool built from every class, enabled or not.
BuildCharsetAllClasses(sets, excludeSimilar) ==
    IF excludeSimilar
    THEN RemoveSimilar(LOWERCASE \o UPPERCASE \o NUMBERS \o SYMBOLS, 1)
    ELSE LOWERCASE \o UPPERCASE \o NUMBERS \o SYMBOLS

BuildCharset(sets, excludeSimilar) ==
    IF excludeSimilar THEN RemoveSimilar(Concat(sets), 1) ELSE Concat(sets)

\* The required characters all drawn from the first enabled pool.
RequiredCharsFirstPool(sets, rnd, k0) ==
    [i \in 1..Len(sets) |-> GetRandomChar(sets[1], Rand(rnd, k0 + i - 1))]

\* No required character: the whole password comes from the fill loop.
RequiredCharsNone(sets, rnd, k0) == <<>>

\* One character per enabled class: draws 0 .. Len(sets)-1 of the call.
RequiredChars(sets, rnd, k0) ==
    [i \in 1..Len(sets) |-> GetRandomChar(sets[i], Rand(rnd, k0 + i - 1))]

\* The fill loop running to i <= length.
FillCharsOneMore(charset, from, length, rnd, k0) ==
    [i \in 1..(IF length >= from THEN length - from + 1 ELSE 0) |->
        GetRandomChar(charset, Rand(rnd, k0 + i - 1))]

\* for (let i = requiredChars.length; i < length; i++) password += ...
FillChars(charset, from, length, rnd, k0) ==
    [i \in 1..(IF length > from THEN length - from ELSE 0) |->
        GetRandomChar(charset, Rand(rnd, k0 + i - 1))]

Swap(array, i, j) ==
    [array EXCEPT ![i] = array[j], ![j] = array[i]]

\* The loop with j drawn below i: const j = getSecureRandomInt(i).
RECURSIVE ShuffleFromBelow(_, _, _, _)
ShuffleFromBelow(array, i, rnd, k) ==
    IF i > 0
    THEN LET j == GetSecureRandomInt(Rand(rnd, k), i)
         IN  ShuffleFromBelow(Swap(array, i + 1, j + 1), i - 1, rnd, k + 1)
    ELSE array

\* for (let i = array.length - 1; i > 0; i--): i is the 0-based index of
\* the code, k the number of the draw.
RECURSIVE ShuffleFrom(_, _, _, _)
ShuffleFrom(array, i, rnd, k) ==
    IF i > 0
    THEN LET j == GetSecureRandomInt(Rand(rnd, k), i + 1)
         IN  ShuffleFrom(Swap(array, i + 1, j + 1), i - 1, rnd, k + 1)
    ELSE array

ShuffleString(str, rnd, k0) == ShuffleFrom(str, Len(str) - 1, rnd, k0)

ShuffleDraws(str) == IF Len(str) > 1 THEN Len(str) - 1 ELSE 0

\* The validation with its two tests in the other order.
ValidateOptionsClassesFirst(length, numbers, symbols, uppercase, lowercase) ==
    IF ~numbers /\ ~symbols /\ ~uppercase /\ ~lowercase
    THEN NoCharacterClassSelected
    ELSE IF length < MinimumLength THEN InvalidLength
    ELSE "valid"

\* The two throws that open generatePassword, in the order of the code: the
\* message thrown, or "valid".
ValidateOptions(length, numbers, symbols, uppercase, lowercase) ==
    IF length < MinimumLength THEN InvalidLength
    ELSE IF ~numbers /\ ~symbols /\ ~uppercase /\ ~lowercase
    THEN NoCharacterClassSelected
    ELSE "valid"

\* generatePassword(options) with the random tape rnd read from draw k0 on:
\* what the call returns or throws, and how many draws it made.
GeneratePasswordFrom(options, rnd, k0) ==
    LET length == Default(options, "length", DefaultLength)
        numbers == Default(options, "numbers", TRUE)
        symbols == Default(options, "symbols", TRUE)
        uppercase == Default(options, "uppercase", TRUE)
        lowercase == Default(options, "lowercase", TRUE)
        excludeSimilar == Default(options, "excludeSimilar", FALSE)
        invalid == ValidateOptions(length, numbers, symbols, uppercase, lowercase)
    IN  IF invalid # "valid"
        THEN [kind |-> "error", value |-> invalid, draws |-> 0]
        ELSE
        LET sets == EnabledSets(lowercase, uppercase, numbers, symbols,
                                excludeSimilar)
            charset == BuildCharset(sets, excludeSimilar)
            requiredChars == RequiredChars(sets, rnd, k0)
            nreq == Len(requiredChars)
            fill == FillChars(charset, nreq, length, rnd, k0 + nreq)
            password == requiredChars \o fill
            ndrawn == nreq + Len(fill)
        IN  [kind |-> "ok",
             value |-> ShuffleString(password, rnd, k0 + ndrawn),
             draws |-> ndrawn + ShuffleDraws(password)]

(***************************************************************************)
(* Numbers.  A bit count (an entropy) is kept in millionths of a bit, and  *)
(* is NaN where the code computes 0 * Math.log2(0).                        *)
(***************************************************************************)
Micro == 1000000

\* floor(10^6 * log2(charsetSize)) for the sizes a password can have; the
\* size 32 is the only power of two and its logarithm is exact.
Log2Micro(charsetSize) ==
    CASE charsetSize = 10 -> 3321928
      [] charsetSize = 26 -> 4700439
      [] charsetSize = 32 -> 5000000
      [] charsetSize = 36 -> 5169925
      [] charsetSize = 42 -> 5392317
      [] charsetSize = 52 -> 5700439
      [] charsetSize = 58 -> 5857980
      [] charsetSize = 62 -> 5954196
      [] charsetSize = 68 -> 6087462
      [] charsetSize = 84 -> 6392317
      [] charsetSize = 94 -> 6554588

Num(micro) == [isNaN |-> FALSE, micro |-> micro]
NaN == [isNaN |-> TRUE, micro |-> 0]

\* password.length * Math.log2(charsetSize): Math.log2(0) is -Infinity, and
\* 0 * -Infinity is NaN.  A non-empty string has a class, so charsetSize is
\* 0 only for the empty string.
LengthTimesLog2(length, charsetSize) ==
    IF charsetSize = 0
    THEN NaN
    ELSE Num(length * Log2Micro(charsetSize))

\* The comparisons of JavaScript: every comparison with NaN is false.
NumGT(x, y) == ~x.isNaN /\ ~y.isNaN /\ x.micro > y.micro
NumGEOrNaN(x, y) == x.isNaN \/ y.isNaN \/ x.micro >= y.micro
NumGE(x, y) == ~x.isNaN /\ ~y.isNaN /\ x.micro >= y.micro
NumLT(x, y) == ~x.isNaN /\ ~y.isNaN /\ x.micro < y.micro

(***************************************************************************)
(* Character classes: /[a-z]/, /[A-Z]/, /[0-9]/ and /[^A-Za-z0-9]/.        *)
(***************************************************************************)
LowerLetters == Chars(LOWERCASE)
UpperLetters == Chars(UPPERCASE)
Digits == Chars(NUMBERS)

TestLower(str) == \E i \in 1..Len(str) : str[i] \in LowerLetters
TestUpper(str) == \E i \in 1..Len(str) : str[i] \in UpperLetters
TestDigit(str) == \E i \in 1..Len(str) : str[i] \in Digits
TestSymbol(str) ==
    \E i \in 1..Len(str) : str[i] \notin (LowerLetters \cup UpperLetters \cup Digits)

CharsetSizeOf(password) ==
    (IF TestLower(password) THEN 26 ELSE 0)
    + (IF TestUpper(password) THEN 26 ELSE 0)
    + (IF TestDigit(password) THEN 10 ELSE 0)
    + (IF TestSymbol(password) THEN 32 ELSE 0)

CalculateSimpleEntropy(password) ==
    LengthTimesLog2(Len(password), CharsetSizeOf(password))

\* The candidates of generateStrongPassword, generated one after the other
\* from the same tape; a candidate that throws ends the call.
RECURSIVE Candidates(_, _, _, _)
Candidates(options, rnd, k0, n) ==
    IF n = 0
    THEN [kind |-> "ok", value |-> <<>>, draws |-> 0]
    ELSE LET first == GeneratePasswordFrom(options, rnd, k0)
         IN  IF first.kind = "error"
             THEN first
             ELSE LET rest == Candidates(options, rnd, k0 + first.draws, n - 1)
                  IN  IF rest.kind = "error"
                      THEN rest
                      ELSE [kind |-> "ok",
                            value |-> <<first.value>> \o rest.value,
                            draws |-> first.draws + rest.draws]

\* The reduction with ">=" for ">": the last of the best candidates
RECURSIVE ReduceBestLast(_, _, _)
ReduceBestLast(passwords, best, i) ==
    IF i > Len(passwords)
    THEN best
    ELSE LET current == passwords[i]
         IN  ReduceBestLast(passwords,
                            IF NumGE(CalculateSimpleEntropy(current),
                                     CalculateSimpleEntropy(best))
                            THEN current ELSE best,
                            i + 1)

\* passwords.reduce((best, current) => ...) without an initial value: best
\* starts as passwords[0].
RECURSIVE ReduceBest(_, _, _)
ReduceBest(passwords, best, i) ==
    IF i > Len(passwords)
    THEN best
    ELSE LET current == passwords[i]
         IN  ReduceBest(passwords,
                        IF NumGT(CalculateSimpleEntropy(current),
                                 CalculateSimpleEntropy(best))
                        THEN current ELSE best,
                        i + 1)

GenerateStrongPasswordFrom(options, rnd, k0) ==
    LET passwords == Candidates(options, rnd, k0, Iterations)
    IN  IF passwords.kind = "error"
        THEN passwords
        ELSE [kind |-> "ok",
              value |-> ReduceBest(passwords.value, passwords.value[1], 2),
              draws |-> passwords.draws]

(***************************************************************************)
(* data/commonPasswords.ts and data/advancedPatterns.ts                    *)
(***************************************************************************)
COMMON_PASSWORDS ==
    {
    <<"1","2","3","4","5","6">>, <<"1","2","3","4","5","6","7">>,
    <<"1","2","3","4","5","6","7","8">>,
    <<"1","2","3","4","5","6","7","8","9">>,
    <<"1","2","3","4","5","6","7","8","9","0">>,
    <<"0","0","0","0","0","0">>, <<"1","1","1","1","1","1">>,
    <<"2","2","2","2","2","2">>, <<"3","3","3","3","3","3">>,
    <<"4","4","4","4","4","4">>, <<"5","5","5","5","5","5">>,
    <<"6","6","6","6","6","6">>, <<"7","7","7","7","7","7">>,
    <<"8","8","8","8","8","8">>, <<"9","9","9","9","9","9">>,
    <<"p","a","s","s","w","o","r","d">>,
    <<"p","a","s","s","w","o","r","d","1">>,
    <<"p","a","s","s","w","o","r","d","1","2","3">>,
    <<"a","d","m","i","n">>,
    <<"a","d","m","i","n","i","s","t","r","a","t","o","r">>,
    <<"r","o","o","t">>, <<"u","s","e","r">>, <<"g","u","e","s","t">>,
    <<"t","e","s","t">>, <<"d","e","m","o">>, <<"q","w","e","r","t","y">>,
    <<"q","w","e","r","t","y","u","i","o","p">>,
    <<"a","s","d","f","g","h">>, <<"a","s","d","f","g","h","j","k","l">>,
    <<"z","x","c","v","b","n">>, <<"z","x","c","v","b","n","m">>,
    <<"a","z","e","r","t","y">>,
    <<"1","2","3","4","5","q","w","e","r","t","y">>,
    <<"q","w","e","r","t","y","1","2","3">>,
    <<"w","e","l","c","o","m","e">>, <<"l","o","g","i","n">>,
    <<"m","a","s","t","e","r">>, <<"s","e","c","r","e","t">>,
    <<"s","u","p","e","r">>, <<"a","c","c","e","s","s">>,
    <<"c","o","m","p","u","t","e","r">>,
    <<"i","n","t","e","r","n","e","t">>, <<"s","e","r","v","i","c","e">>,
    <<"s","y","s","t","e","m">>, <<"1","9","7","0","0","1","0","1">>,
    <<"1","9","8","0","0","1","0","1">>,
    <<"1","9","9","0","0","1","0","1">>,
    <<"2","0","0","0","0","1","0","1">>,
    <<"2","0","1","0","0","1","0","1">>,
    <<"2","0","2","0","0","1","0","1">>,
    <<"0","1","0","1","1","9","7","0">>,
    <<"0","1","0","1","1","9","8","0">>,
    <<"0","1","0","1","1","9","9","0">>,
    <<"0","1","0","1","2","0","0","0">>, <<"a","b","c","1","2","3">>,
    <<"1","2","3","a","b","c">>, <<"a","1","b","2","c","3">>,
    <<"1","q","2","w","3","e">>, <<"1","q","2","w","3","e","4","r">>,
    <<"1","q","a","z","2","w","s","x">>, <<"q","w","e","1","2","3">>,
    <<"a","s","d","1","2","3">>, <<"z","x","c","1","2","3">>,
    <<"j","o","h","n","1","2","3">>, <<"a","d","m","i","n","1","2","3">>,
    <<"r","o","o","t","1","2","3">>, <<"u","s","e","r","1","2","3">>,
    <<"p","a","s","s","1","2","3">>, <<"t","e","m","p","1","2","3">>,
    <<"a","a","a","a","a","a","a">>,
    <<"a","a","a","a","a","a","a","a","a","a">>,
    <<"l","e","t","m","e","i","n">>, <<"w","e","l","c","o","m","e","1">>,
    <<"i","l","o","v","e","y","o","u">>,
    <<"p","r","i","n","c","e","s","s">>, <<"r","o","c","k","y","o","u">>,
    <<"1","2","3","4","1","2","3","4">>,
    <<"p","a","s","s","w","0","r","d">>,
    <<"p","@","s","s","w","0","r","d">>,
    <<"p","@","s","s","w","o","r","d">>,
    <<"p","a","s","s","w","o","r","d","!">>,
    <<"P","a","s","s","w","o","r","d","1">>,
    <<"P","a","s","s","w","o","r","d","1","2","3">>
    }

EXTENDED_COMMON_PASSWORDS ==
    <<
    <<"p","a","s","s","w","o","r","d">>,
    <<"p","a","s","s","w","o","r","d","1">>,
    <<"p","a","s","s","w","o","r","d","1","2","3">>, <<"p","a","s","s">>,
    <<"a","d","m","i","n">>,
    <<"a","d","m","i","n","i","s","t","r","a","t","o","r">>,
    <<"r","o","o","t">>, <<"u","s","e","r">>, <<"g","u","e","s","t">>,
    <<"t","e","s","t">>, <<"d","e","m","o">>, <<"t","e","m","p">>,
    <<"q","w","e","r","t","y">>, <<"a","s","d","f">>, <<"z","x","c","v">>,
    <<"a","d","m","i","n","1","2","3">>, <<"r","o","o","t","1","2","3">>,
    <<"u","s","e","r","1","2","3">>, <<"p","a","s","s","1","2","3">>,
    <<"t","e","m","p","1","2","3">>, <<"2","0","2","3">>,
    <<"2","0","2","2">>, <<"2","0","2","1">>, <<"2","0","2","0">>,
    <<"2","0","1","9">>, <<"2","0","1","8">>, <<"2","0","1","7">>,
    <<"2","0","1","6">>, <<"2","0","1","5">>, <<"1","9","9","0">>,
    <<"1","9","9","1">>, <<"1","9","9","2">>, <<"1","9","9","3">>,
    <<"1","9","9","4">>, <<"1","9","9","5">>, <<"1","9","9","6">>,
    <<"1","9","9","7">>, <<"1","9","9","8">>, <<"1","9","9","9">>,
    <<"2","0","0","0">>, <<"2","0","0","1">>, <<"2","0","0","2">>,
    <<"2","0","0","3">>, <<"2","0","0","4">>, <<"2","0","0","5">>,
    <<"2","0","0","6">>, <<"2","0","0","7">>, <<"2","0","0","8">>,
    <<"2","0","0","9">>, <<"2","0","1","0">>, <<"2","0","1","1">>,
    <<"2","0","1","2">>, <<"2","0","1","3">>, <<"2","0","1","4">>,
    <<"w","e","l","c","o","m","e">>, <<"l","o","g","i","n">>,
    <<"m","a","s","t","e","r">>, <<"s","e","c","r","e","t">>,
    <<"s","u","p","e","r">>, <<"a","c","c","e","s","s">>,
    <<"c","o","m","p","u","t","e","r">>,
    <<"i","n","t","e","r","n","e","t">>, <<"s","y","s","t","e","m">>,
    <<"s","e","r","v","i","c","e">>, <<"l","e","t","m","e","i","n">>,
    <<"w","e","l","c","o","m","e","1">>,
    <<"i","l","o","v","e","y","o","u">>,
    <<"p","r","i","n","c","e","s","s">>, <<"r","o","c","k","y","o","u">>,
    <<"s","u","n","s","h","i","n","e">>, <<"s","h","a","d","o","w">>,
    <<"d","r","a","g","o","n">>, <<"m","o","n","k","e","y">>,
    <<"f","o","o","t","b","a","l","l">>,
    <<"b","a","s","e","b","a","l","l">>,
    <<"b","a","s","k","e","t","b","a","l","l">>,
    <<"s","o","c","c","e","r">>, <<"t","e","n","n","i","s">>,
    <<"h","o","c","k","e","y">>, <<"j","o","h","n">>, <<"m","a","r","y">>,
    <<"d","a","v","i","d">>, <<"s","a","r","a","h">>,
    <<"m","i","c","h","a","e","l">>, <<"j","e","n","n","i","f","e","r">>,
    <<"r","o","b","e","r","t">>, <<"l","i","n","d","a">>,
    <<"w","i","l","l","i","a","m">>,
    <<"e","l","i","z","a","b","e","t","h">>, <<"j","a","m","e","s">>,
    <<"b","a","r","b","a","r","a">>, <<"c","h","a","r","l","e","s">>,
    <<"s","u","s","a","n">>, <<"j","o","s","e","p","h">>,
    <<"j","e","s","s","i","c","a">>, <<"t","h","o","m","a","s">>,
    <<"k","a","r","e","n">>,
    <<"c","h","r","i","s","t","o","p","h","e","r">>,
    <<"n","a","n","c","y">>, <<"d","a","n","i","e","l">>,
    <<"b","e","t","t","y">>, <<"m","a","t","t","h","e","w">>,
    <<"h","e","l","e","n">>, <<"a","n","t","h","o","n","y">>,
    <<"s","a","n","d","r","a">>, <<"p","@","s","s","w","0","r","d">>,
    <<"p","@","s","s","w","o","r","d">>,
    <<"p","a","s","s","w","0","r","d">>,
    <<"p","a","s","s","w","o","r","d","!">>,
    <<"P","a","s","s","w","o","r","d","1">>, <<"a","d","m","i","n","!">>,
    <<"a","d","m","1","n">>, <<"4","d","m","1","n">>, <<"r","0","0","t">>,
    <<"u","s","3","r">>, <<"t","3","s","t">>, <<"d","3","m","o">>,
    <<"1","2","3","4","5","6","7","8","9","0">>,
    <<"0","9","8","7","6","5","4","3","2","1">>,
    <<"q","w","e","r","t","y","1","2","3">>,
    <<"a","s","d","f","1","2","3">>, <<"z","x","c","v","1","2","3">>,
    <<"m","i","c","r","o","s","o","f","t">>, <<"g","o","o","g","l","e">>,
    <<"a","p","p","l","e">>, <<"f","a","c","e","b","o","o","k">>,
    <<"t","w","i","t","t","e","r">>, <<"a","m","a","z","o","n">>,
    <<"w","i","n","d","o","w","s">>, <<"l","i","n","u","x">>,
    <<"a","n","d","r","o","i","d">>, <<"i","p","h","o","n","e">>,
    <<"s","a","m","s","u","n","g">>, <<"o","r","a","c","l","e">>,
    <<"c","i","s","c","o">>, <<"i","n","t","e","l">>,
    <<"n","v","i","d","i","a">>, <<"a","d","o","b","e">>,
    <<"p","a","y","p","a","l">>, <<"n","e","t","f","l","i","x">>
    >>

COMMON_FIRST_NAMES ==
    <<
    <<"j","o","h","n">>, <<"m","a","r","y">>, <<"d","a","v","i","d">>,
    <<"s","a","r","a","h">>, <<"m","i","c","h","a","e","l">>,
    <<"j","e","n","n","i","f","e","r">>, <<"r","o","b","e","r","t">>,
    <<"l","i","n","d","a">>, <<"w","i","l","l","i","a","m">>,
    <<"e","l","i","z","a","b","e","t","h">>, <<"j","a","m","e","s">>,
    <<"b","a","r","b","a","r","a">>, <<"c","h","a","r","l","e","s">>,
    <<"s","u","s","a","n">>, <<"j","o","s","e","p","h">>,
    <<"j","e","s","s","i","c","a">>, <<"t","h","o","m","a","s">>,
    <<"k","a","r","e","n">>,
    <<"c","h","r","i","s","t","o","p","h","e","r">>,
    <<"n","a","n","c","y">>, <<"d","a","n","i","e","l">>,
    <<"b","e","t","t","y">>, <<"m","a","t","t","h","e","w">>,
    <<"h","e","l","e","n">>, <<"a","n","t","h","o","n","y">>,
    <<"s","a","n","d","r","a">>, <<"m","a","r","k">>,
    <<"d","o","n","n","a">>, <<"d","o","n","a","l","d">>,
    <<"c","a","r","o","l">>, <<"s","t","e","v","e","n">>,
    <<"r","u","t","h">>, <<"k","e","n","n","e","t","h">>,
    <<"s","h","a","r","o","n">>, <<"p","a","u","l">>,
    <<"m","i","c","h","e","l","l","e">>, <<"a","n","d","r","e","w">>,
    <<"l","a","u","r","a">>, <<"j","o","s","h","u","a">>,
    <<"e","m","i","l","y">>, <<"k","e","v","i","n">>,
    <<"k","i","m","b","e","r","l","y">>, <<"b","r","i","a","n">>,
    <<"d","e","b","o","r","a","h">>, <<"g","e","o","r","g","e">>,
    <<"d","o","r","o","t","h","y">>, <<"t","i","m","o","t","h","y">>,
    <<"l","i","s","a">>, <<"r","o","n","a","l","d">>,
    <<"j","a","s","o","n">>, <<"e","d","w","a","r","d">>,
    <<"j","e","f","f","r","e","y">>, <<"r","y","a","n">>,
    <<"j","a","c","o","b">>
    >>

KEYBOARD_PATTERNS ==
    <<
    <<"q","w","e","r","t","y","u","i","o","p">>,
    <<"a","s","d","f","g","h","j","k","l">>,
    <<"z","x","c","v","b","n","m">>,
    <<"p","o","i","u","y","t","r","e","w","q">>,
    <<"l","k","j","h","g","f","d","s","a">>,
    <<"m","n","b","v","c","x","z">>, <<"q","a","z">>, <<"w","s","x">>,
    <<"e","d","c">>, <<"r","f","v">>, <<"t","g","b">>, <<"y","h","n">>,
    <<"u","j","m">>, <<"i","k">>, <<"o","l">>, <<"p">>, <<"z","a","q">>,
    <<"x","s","w">>, <<"c","d","e">>, <<"v","f","r">>, <<"b","g","t">>,
    <<"n","h","y">>, <<"m","j","u">>, <<"k","i">>, <<"l","o">>,
    <<"q","w","e">>, <<"a","s","d">>, <<"z","x","c">>, <<"w","e","r">>,
    <<"s","d","f">>, <<"x","c","v">>, <<"e","r","t">>, <<"d","f","g">>,
    <<"c","v","b">>, <<"r","t","y">>, <<"f","g","h">>, <<"v","b","n">>,
    <<"t","y","u">>, <<"g","h","j">>, <<"b","n","m">>, <<"y","u","i">>,
    <<"h","j","k">>, <<"n","m","k">>, <<"u","i","o">>, <<"j","k","l">>,
    <<"i","o","p">>, <<"k","l">>, <<"1","2","3">>, <<"2","3","4">>,
    <<"3","4","5">>, <<"4","5","6">>, <<"5","6","7">>, <<"6","7","8">>,
    <<"7","8","9">>, <<"8","9","0">>, <<"9","8","7">>, <<"8","7","6">>,
    <<"7","6","5">>, <<"6","5","4">>, <<"5","4","3">>, <<"4","3","2">>,
    <<"3","2","1">>
    >>

COMMON_WORDS_colors ==
    <<
    <<"r","e","d">>, <<"b","l","u","e">>, <<"g","r","e","e","n">>,
    <<"y","e","l","l","o","w">>, <<"b","l","a","c","k">>,
    <<"w","h","i","t","e">>, <<"p","u","r","p","l","e">>,
    <<"o","r","a","n","g","e">>, <<"p","i","n","k">>,
    <<"b","r","o","w","n">>
    >>

COMMON_WORDS_animals ==
    <<
    <<"c","a","t">>, <<"d","o","g">>, <<"b","i","r","d">>,
    <<"f","i","s","h">>, <<"t","i","g","e","r">>, <<"l","i","o","n">>,
    <<"b","e","a","r">>, <<"w","o","l","f">>, <<"f","o","x">>,
    <<"e","a","g","l","e">>
    >>

COMMON_WORDS_sports ==
    <<
    <<"f","o","o","t","b","a","l","l">>,
    <<"b","a","s","e","b","a","l","l">>,
    <<"b","a","s","k","e","t","b","a","l","l">>,
    <<"s","o","c","c","e","r">>, <<"t","e","n","n","i","s">>,
    <<"h","o","c","k","e","y">>, <<"g","o","l","f">>,
    <<"s","w","i","m","m","i","n","g">>
    >>

COMMON_WORDS_months ==
    <<
    <<"j","a","n","u","a","r","y">>, <<"f","e","b","r","u","a","r","y">>,
    <<"m","a","r","c","h">>, <<"a","p","r","i","l">>, <<"m","a","y">>,
    <<"j","u","n","e">>, <<"j","u","l","y">>, <<"a","u","g","u","s","t">>,
    <<"s","e","p","t","e","m","b","e","r">>,
    <<"o","c","t","o","b","e","r">>, <<"n","o","v","e","m","b","e","r">>,
    <<"d","e","c","e","m","b","e","r">>
    >>

COMMON_WORDS_days ==
    <<
    <<"m","o","n","d","a","y">>, <<"t","u","e","s","d","a","y">>,
    <<"w","e","d","n","e","s","d","a","y">>,
    <<"t","h","u","r","s","d","a","y">>, <<"f","r","i","d","a","y">>,
    <<"s","a","t","u","r","d","a","y">>, <<"s","u","n","d","a","y">>
    >>

COMMON_WORDS ==
    <<COMMON_WORDS_colors, COMMON_WORDS_animals, COMMON_WORDS_sports,
      COMMON_WORDS_months, COMMON_WORDS_days>>

\* Object.entries(LEET_SUBSTITUTIONS), flattened in iteration order: each
\* pair is <<substitute, character>>.
LEET_SUBSTITUTIONS ==
    << <<"@","a">>, <<"4","a">>, <<"3","e">>, <<"1","i">>, <<"!","i">>,
       <<"0","o">>, <<"5","s">>, <<"$","s">>, <<"7","t">>, <<"+","t">>,
       <<"1","l">>, <<"|","l">>, <<"9","g">>, <<"6","b">>, <<"2","z">> >>

\* String.prototype.toLowerCase on the characters of the model.
LowerOf(c) ==
    IF c \in UpperLetters
    THEN LOWERCASE[CHOOSE i \in 1..26 : UPPERCASE[i] = c]
    ELSE c

ToLowerCase(str) == Const(str, LAMBDA s : [i \in 1..Len(s) |-> LowerOf(s[i])])

Reverse(str) ==
    Const(str, LAMBDA s : [i \in 1..Len(s) |-> s[Len(s) + 1 - i]])

\* String.prototype.includes
Includes(str, word) ==
    \E s \in {str}, w \in {word} :
        \E i \in 1..(Len(s) - Len(w) + 1) :
            \A j \in 1..Len(w) : s[i + j - 1] = w[j]

SeqToSet(seq) == {seq[i] : i \in 1..Len(seq)}

ExtendedSet == SeqToSet(EXTENDED_COMMON_PASSWORDS)

IsCommonPasswordExactCase(password) == password \in COMMON_PASSWORDS

IsCommonPassword(password) == ToLowerCase(password) \in COMMON_PASSWORDS

\* normalized.replace(new RegExp(escaped substitute, 'g'), char)
ReplaceAll(str, from, to) ==
    Const(str, LAMBDA s : [i \in 1..Len(s) |-> IF s[i] = from THEN to ELSE s[i]])

RECURSIVE ApplyLeet(_, _)
ApplyLeet(normalized, i) ==
    IF i > Len(LEET_SUBSTITUTIONS) THEN normalized
    ELSE ApplyLeet(ReplaceAll(normalized, LEET_SUBSTITUTIONS[i][1],
                              LEET_SUBSTITUTIONS[i][2]), i + 1)

NormalizeLeetSpeak(password) == ApplyLeet(ToLowerCase(password), 1)

ContainsKeyboardPattern(password) ==
    \E lowerPassword \in {ToLowerCase(password)} :
        \E i \in 1..Len(KEYBOARD_PATTERNS) :
            \/ Includes(lowerPassword, KEYBOARD_PATTERNS[i])
            \/ Includes(lowerPassword, Reverse(KEYBOARD_PATTERNS[i]))

(***************************************************************************)
(* passwordChecker.ts: analysis, score, verdict, suggestions               *)
(***************************************************************************)
CalculateEntropy(password) ==
    LengthTimesLog2(Len(password), CharsetSizeOf(password))

\* analyzePassword counting the letters as one character type
AnalyzePasswordLettersOnce(password) ==
    LET hasUppercase == TestUpper(password)
        hasLowercase == TestLower(password)
        hasNumbers == TestDigit(password)
        hasSymbols == TestSymbol(password)
    IN  [length |-> Len(password),
         hasUppercase |-> hasUppercase,
         hasLowercase |-> hasLowercase,
         hasNumbers |-> hasNumbers,
         hasSymbols |-> hasSymbols,
         entropy |-> CalculateEntropy(password),
         isCommonPassword |-> IsCommonPassword(password),
         varietyScore |-> (IF hasUppercase \/ hasLowercase THEN 1 ELSE 0)
                          + (IF hasNumbers THEN 1 ELSE 0)
                          + (IF hasSymbols THEN 1 ELSE 0)]

AnalyzePassword(password) ==
    LET hasUppercase == TestUpper(password)
        hasLowercase == TestLower(password)
        hasNumbers == TestDigit(password)
        hasSymbols == TestSymbol(password)
    IN  [length |-> Len(password),
         hasUppercase |-> hasUppercase,
         hasLowercase |-> hasLowercase,
         hasNumbers |-> hasNumbers,
         hasSymbols |-> hasSymbols,
         entropy |-> CalculateEntropy(password),
         isCommonPassword |-> IsCommonPassword(password),
         varietyScore |-> (IF hasUppercase THEN 1 ELSE 0)
                          + (IF hasLowercase THEN 1 ELSE 0)
                          + (IF hasNumbers THEN 1 ELSE 0)
                          + (IF hasSymbols THEN 1 ELSE 0)]

\* The "." of a regular expression matches all but the line terminators.
Dot(c) == c \notin {"\n", "\r"}

\* /(.{1,3})\1{2,}/ : a block of 1 to 3 characters, three times in a row.
RepeatingPattern(password) ==
    \E k \in 1..3 : \E i \in 1..(Len(password) - 3 * k + 1) :
        \A j \in 0..(k - 1) :
            /\ Dot(password[i + j])
            /\ password[i + j] = password[i + j + k]
            /\ password[i + j] = password[i + j + 2 * k]

\* /(.)\1{2,}/ : one character, three times in a row.
SameChar(password) ==
    \E i \in 1..(Len(password) - 2) :
        /\ Dot(password[i])
        /\ password[i] = password[i + 1]
        /\ password[i] = password[i + 2]

HasRepeatingPatterns(password) ==
    RepeatingPattern(password) \/ SameChar(password)

Sequences3 ==
    << NUMBERS, Reverse(NUMBERS), LOWERCASE, Reverse(LOWERCASE),
       <<"q","w","e","r","t","y","u","i","o","p">>,
       <<"p","o","i","u","y","t","r","e","w","q">>,
       <<"a","s","d","f","g","h","j","k","l">>,
       <<"l","k","j","h","g","f","d","s","a">> >>

HasSequentialPattern(password) ==
    \E lowerPassword \in {ToLowerCase(password)} :
        \E s \in 1..Len(Sequences3) :
            \E i \in 0..(Len(Sequences3[s]) - 3) :
                Includes(lowerPassword, SubSeq(Sequences3[s], i + 1, i + 3))

\* A score is kept in tenths of a point: 10 is the score 1, 5 the score 0.5.
Point == 10
HalfPoint == 5

\* Math.round(x) for x in tenths: the nearest whole number, a half going up.
MathRound(tenths) == ((tenths + 5) \div 10) * 10

Max(a, b) == IF a >= b THEN a ELSE b
Min(a, b) == IF a <= b THEN a ELSE b

ScoreSumExactLength(analysis, password) ==
    (IF analysis.length = 8 THEN Point ELSE 0)
    + (IF analysis.length = 12 THEN Point ELSE 0)
    + (IF analysis.length = 16 THEN HalfPoint ELSE 0)
    + (IF analysis.varietyScore >= 2 THEN HalfPoint ELSE 0)
    + (IF analysis.varietyScore >= 3 THEN HalfPoint ELSE 0)
    + (IF analysis.varietyScore >= 4 THEN Point ELSE 0)
    + (IF NumGE(analysis.entropy, Num(40 * Micro)) THEN HalfPoint ELSE 0)
    + (IF NumGE(analysis.entropy, Num(60 * Micro)) THEN HalfPoint ELSE 0)
    + (IF NumGE(analysis.entropy, Num(80 * Micro)) THEN HalfPoint ELSE 0)
    - (IF HasRepeatingPatterns(password) THEN HalfPoint ELSE 0)
    - (IF HasSequentialPattern(password) THEN HalfPoint ELSE 0)

\* The sum of calculateScore before it is rounded and capped.
ScoreSum(analysis, password) ==
    (IF analysis.length >= 8 THEN Point ELSE 0)
    + (IF analysis.length >= 12 THEN Point ELSE 0)
    + (IF analysis.length >= 16 THEN HalfPoint ELSE 0)
    + (IF analysis.varietyScore >= 2 THEN HalfPoint ELSE 0)
    + (IF analysis.varietyScore >= 3 THEN HalfPoint ELSE 0)
    + (IF analysis.varietyScore >= 4 THEN Point ELSE 0)
    + (IF NumGE(analysis.entropy, Num(40 * Micro)) THEN HalfPoint ELSE 0)
    + (IF NumGE(analysis.entropy, Num(60 * Micro)) THEN HalfPoint ELSE 0)
    + (IF NumGE(analysis.entropy, Num(80 * Micro)) THEN HalfPoint ELSE 0)
    - (IF HasRepeatingPatterns(password) THEN HalfPoint ELSE 0)
    - (IF HasSequentialPattern(password) THEN HalfPoint ELSE 0)

CalculateScoreUncapped(analysis, password) ==
    IF analysis.isCommonPassword
    THEN 0
    ELSE Max(0, MathRound(ScoreSum(analysis, password) * 2) \div 2)

CalculateScore(analysis, password) ==
    IF analysis.isCommonPassword
    THEN 0
    ELSE Max(0, Min(5 * Point,
                    MathRound(ScoreSum(analysis, password) * 2) \div 2))

\* getVerdict with "<" for "<="
GetVerdictBelow(score) ==
    IF score < Point THEN "weak"
    ELSE IF score < 2 * Point + HalfPoint THEN "medium"
    ELSE IF score < 4 * Point THEN "strong"
    ELSE "very strong"

GetVerdict(score) ==
    IF score <= Point THEN "weak"
    ELSE IF score <= 2 * Point + HalfPoint THEN "medium"
    ELSE IF score <= 4 * Point THEN "strong"
    ELSE "very strong"

SuggestAvoidCommon == "Avoid common passwords - use a unique combination"
SuggestAtLeast8 == "Use at least 8 characters"
Suggest12Plus == "Consider using 12+ characters for better security"
SuggestUppercase == "Add uppercase letters (A-Z)"
SuggestLowercase == "Add lowercase letters (a-z)"
SuggestNumbers == "Add numbers (0-9)"
SuggestSpecial == "Add special characters (!@#$%^&*)"
SuggestMix == "Mix different character types for complexity"
SuggestRandomness == "Increase randomness - avoid predictable patterns"
SuggestGreat ==
    "Great password! Consider using a password manager for unique passwords across all accounts"

If(cond, suggestion) == IF cond THEN <<suggestion>> ELSE <<>>

\* generateSuggestions with the two length suggestions tested one by one
GenerateSuggestionsBothLengths(analysis) ==
    LET suggestions ==
            If(analysis.isCommonPassword, SuggestAvoidCommon)
            \o If(analysis.length < 8, SuggestAtLeast8)
            \o If(analysis.length < 12, Suggest12Plus)
            \o If(~analysis.hasUppercase, SuggestUppercase)
            \o If(~analysis.hasLowercase, SuggestLowercase)
            \o If(~analysis.hasNumbers, SuggestNumbers)
            \o If(~analysis.hasSymbols, SuggestSpecial)
            \o If(analysis.varietyScore < 3, SuggestMix)
            \o If(NumLT(analysis.entropy, Num(40 * Micro)), SuggestRandomness)
    IN  suggestions
        \o If(Len(suggestions) = 0 /\ NumGE(analysis.entropy, Num(60 * Micro)),
              SuggestGreat)

\* generateSuggestions with the encouragement from an entropy of 80 on
GenerateSuggestionsFrom80(analysis) ==
    LET suggestions ==
            If(analysis.isCommonPassword, SuggestAvoidCommon)
            \o (IF analysis.length < 8 THEN <<SuggestAtLeast8>>
                ELSE IF analysis.length < 12 THEN <<Suggest12Plus>>
                ELSE <<>>)
            \o If(~analysis.hasUppercase, SuggestUppercase)
            \o If(~analysis.hasLowercase, SuggestLowercase)
            \o If(~analysis.hasNumbers, SuggestNumbers)
            \o If(~analysis.hasSymbols, SuggestSpecial)
            \o If(analysis.varietyScore < 3, SuggestMix)
            \o If(NumLT(analysis.entropy, Num(40 * Micro)), SuggestRandomness)
    IN  suggestions
        \o If(Len(suggestions) = 0 /\ NumGE(analysis.entropy, Num(80 * Micro)),
              SuggestGreat)

GenerateSuggestions(analysis) ==
    LET suggestions ==
            If(analysis.isCommonPassword, SuggestAvoidCommon)
            \o (IF analysis.length < 8 THEN <<SuggestAtLeast8>>
                ELSE IF analysis.length < 12 THEN <<Suggest12Plus>>
                ELSE <<>>)
            \o If(~analysis.hasUppercase, SuggestUppercase)
            \o If(~analysis.hasLowercase, SuggestLowercase)
            \o If(~analysis.hasNumbers, SuggestNumbers)
            \o If(~analysis.hasSymbols, SuggestSpecial)
            \o If(analysis.varietyScore < 3, SuggestMix)
            \o If(NumLT(analysis.entropy, Num(40 * Micro)), SuggestRandomness)
    IN  suggestions
        \o If(Len(suggestions) = 0 /\ NumGE(analysis.entropy, Num(60 * Micro)),
              SuggestGreat)

(***************************************************************************)
(* Numbers of any size.  A keyspace or a number of seconds is an exact     *)
(* decimal n / 10^e; n is a natural number written in base 10000, least    *)
(* significant limb first, without leading zero limbs (0 is <<>>).  The    *)
(* rounding of IEEE doubles is left out: every value is the exact one.     *)
(* The radix is a matter of representation only: a power of ten, so that   *)
(* a division by 10^e is a shift, and small enough for a product of two    *)
(* limbs to stay within 32 bits.                                           *)
(***************************************************************************)
Limb == 10 ^ 4

RECURSIVE BigFromInt(_)
BigFromInt(n) ==
    Const(n, LAMBDA v :
        IF v = 0 THEN <<>> ELSE <<v % Limb>> \o BigFromInt(v \div Limb))

\* The limbs lo .. hi of a * k + carry, and the carry out of limb hi.  The
\* recursion halves the range, so that it is no deeper than the logarithm
\* of the number of limbs.
RECURSIVE BigMulSmallFrom(_, _, _, _, _)
BigMulSmallFrom(a, k, lo, hi, carry) ==
    IF lo > hi THEN [limbs |-> <<>>, carry |-> carry]
    ELSE IF lo = hi
    THEN Const(a[lo] * k + carry, LAMBDA t :
            [limbs |-> <<t % Limb>>, carry |-> t \div Limb])
    ELSE Const((lo + hi) \div 2, LAMBDA mid :
         Const(BigMulSmallFrom(a, k, lo, mid, carry), LAMBDA low :
         Const(BigMulSmallFrom(a, k, mid + 1, hi, low.carry), LAMBDA high :
            [limbs |-> low.limbs \o high.limbs, carry |-> high.carry])))

\* a * k for 0 <= k <= 10000
BigMulSmall(a, k) ==
    Const2(a, k, LAMBDA va, vk :
        IF vk = 0 THEN <<>>
        ELSE Const(BigMulSmallFrom(va, vk, 1, Len(va), 0), LAMBDA r :
                r.limbs \o BigFromInt(r.carry)))

LimbAt(a, i) == IF i <= Len(a) THEN a[i] ELSE 0

RECURSIVE BigAddFrom(_, _, _, _, _)
BigAddFrom(a, b, lo, hi, carry) ==
    IF lo > hi THEN [limbs |-> <<>>, carry |-> carry]
    ELSE IF lo = hi
    THEN Const(LimbAt(a, lo) + LimbAt(b, lo) + carry, LAMBDA t :
            [limbs |-> <<t % Limb>>, carry |-> t \div Limb])
    ELSE Const((lo + hi) \div 2, LAMBDA mid :
         Const(BigAddFrom(a, b, lo, mid, carry), LAMBDA low :
         Const(BigAddFrom(a, b, mid + 1, hi, low.carry), LAMBDA high :
            [limbs |-> low.limbs \o high.limbs, carry |-> high.carry])))

BigAdd(a, b) ==
    Const2(a, b, LAMBDA va, vb :
        Const(BigAddFrom(va, vb, 1, Max(Len(va), Len(vb)), 0), LAMBDA r :
            r.limbs \o BigFromInt(r.carry)))

\* a * 10000^n
BigShift(a, n) ==
    Const2(a, n, LAMBDA va, vn :
        IF va = <<>> THEN <<>> ELSE [i \in 1..vn |-> 0] \o va)

\* a times the limbs lo .. hi of b, each in its place
RECURSIVE BigMulFrom(_, _, _, _)
BigMulFrom(a, b, lo, hi) ==
    IF lo > hi THEN <<>>
    ELSE IF lo = hi THEN BigShift(BigMulSmall(a, b[lo]), lo - 1)
    ELSE Const((lo + hi) \div 2, LAMBDA mid :
            BigAdd(BigMulFrom(a, b, lo, mid), BigMulFrom(a, b, mid + 1, hi)))

BigMul(a, b) == Const2(a, b, LAMBDA va, vb : BigMulFrom(va, vb, 1, Len(vb)))

\* a and b of one length, compared at the greatest limb that differs
BigCmpFrom(a, b) ==
    Const({i \in 1..Len(a) : a[i] # b[i]}, LAMBDA differ :
        IF differ = {} THEN 0
        ELSE Const(CHOOSE i \in differ : \A j \in differ : j <= i, LAMBDA i :
                IF a[i] < b[i] THEN -1 ELSE 1))

\* -1, 0 or 1 as a < b, a = b or a > b
BigCmp(a, b) ==
    Const2(a, b, LAMBDA va, vb :
        IF Len(va) < Len(vb) THEN -1
        ELSE IF Len(va) > Len(vb) THEN 1
        ELSE BigCmpFrom(va, vb))

\* base^exponent by squaring
RECURSIVE BigPow(_, _)
BigPow(base, exponent) ==
    Const(exponent, LAMBDA e :
        IF e = 0 THEN <<1>>
        ELSE Const(BigPow(base, e \div 2), LAMBDA half :
             Const(BigMul(half, half), LAMBDA square :
                IF e % 2 = 0 THEN square ELSE BigMulSmall(square, base))))

BigPow10(exponent) ==
    Const(exponent, LAMBDA e :
        BigShift(<<CASE e % 4 = 0 -> 1 [] e % 4 = 1 -> 10
                     [] e % 4 = 2 -> 100 [] e % 4 = 3 -> 1000>>, e \div 4))

\* a without its leading zero limbs
BigStrip(a) ==
    Const(a, LAMBDA v :
        Const({i \in 1..Len(v) : v[i] # 0}, LAMBDA nonzero :
            IF nonzero = {} THEN <<>>
            ELSE SubSeq(v, 1, CHOOSE i \in nonzero : \A j \in nonzero : j <= i)))

\* The limbs lo .. hi of the quotient, from limb hi down, and the remainder
RECURSIVE BigDivSmallFrom(_, _, _, _, _)
BigDivSmallFrom(a, d, lo, hi, rem) ==
    IF lo > hi THEN [limbs |-> <<>>, rem |-> rem]
    ELSE IF lo = hi
    THEN Const(rem * Limb + a[lo], LAMBDA t :
            [limbs |-> <<t \div d>>, rem |-> t % d])
    ELSE Const((lo + hi) \div 2, LAMBDA mid :
         Const(BigDivSmallFrom(a, d, mid + 1, hi, rem), LAMBDA high :
         Const(BigDivSmallFrom(a, d, lo, mid, high.rem), LAMBDA low :
            [limbs |-> low.limbs \o high.limbs, rem |-> low.rem])))

\* floor(a / d) for 1 <= d <= 10000
BigDivSmall(a, d) ==
    Const2(a, d, LAMBDA va, vd :
        BigStrip(BigDivSmallFrom(va, vd, 1, Len(va), 0).limbs))

RECURSIVE BigDivAll(_, _, _)
BigDivAll(a, divisors, i) ==
    IF i > Len(divisors) THEN a
    ELSE BigDivAll(BigDivSmall(a, divisors[i]), divisors, i + 1)

RECURSIVE BigProduct(_, _)
BigProduct(factors, i) ==
    IF i > Len(factors) THEN <<1>>
    ELSE BigMulSmall(BigProduct(factors, i + 1), factors[i])

\* floor(a / 10^e)
BigDivPow10(a, e) ==
    Const2(a, e, LAMBDA va, ve :
        BigDivSmall(IF ve \div 4 >= Len(va) THEN <<>>
                    ELSE SubSeq(va, ve \div 4 + 1, Len(va)),
                    BigPow10(ve % 4)[1]))

Dec(n, e) == [n |-> n, e |-> e, inf |-> FALSE]
DecInt(k) == Dec(BigFromInt(k), 0)
DecOne == DecInt(1)

\* Infinity, the result of an operation on doubles that overflows
Infinity == [n |-> <<>>, e |-> 0, inf |-> TRUE]

\* The comparison of two finite numbers
\* a * 10^e
BigMulPow10(a, e) == BigShift(BigMulSmall(a, 10 ^ (e % 4)), e \div 4)

FiniteCmp(x, y) ==
    Const2(x, y, LAMBDA vx, vy :
        BigCmp(BigMulPow10(vx.n, Max(0, vy.e - vx.e)),
               BigMulPow10(vy.n, Max(0, vx.e - vy.e))))

DecCmp(x, y) ==
    Const2(x, y, LAMBDA vx, vy :
        IF vx.inf THEN (IF vy.inf THEN 0 ELSE 1)
        ELSE IF vy.inf THEN -1
        ELSE FiniteCmp(vx, vy))

\* The least number that rounds to Infinity as a double: 2^1024 - 2^970,
\* which is 1.7976931348623158 * 10^308 to 17 digits.
DoubleOverflow == Dec(BigShift(<<3158, 4862, 9313, 7976, 1>>, 73), 0)

\* A number of at most 73 limbs is below 10^292.
OverflowLimbs == Len(DoubleOverflow.n) - 5

\* The result of an operation on doubles as a double: Infinity from
\* DoubleOverflow on.  The rounding of the finite results is left out.
Double(x) ==
    Const(x, LAMBDA vx :
        IF /\ ~vx.inf
           /\ Len(vx.n) > OverflowLimbs
           /\ FiniteCmp(vx, DoubleOverflow) >= 0
        THEN Infinity ELSE vx)

\* Math.pow(base, exponent) for integers base >= 0 and exponent >= 0
MathPow(base, exponent) == Double(Dec(BigPow(base, exponent), 0))

\* x * y; no factor is 0
DecMul(x, y) ==
    Const2(x, y, LAMBDA vx, vy :
        IF vx.inf \/ vy.inf THEN Infinity
        ELSE Double(Dec(BigMul(vx.n, vy.n), vx.e + vy.e)))

DecLT(x, y) == DecCmp(x, y) < 0
DecEq(x, y) == DecCmp(x, y) = 0
\* Math.max and Math.min
DecMax(x, y) ==
    Const2(x, y, LAMBDA vx, vy : IF DecCmp(vx, vy) >= 0 THEN vx ELSE vy)
DecMin(x, y) ==
    Const2(x, y, LAMBDA vx, vy : IF DecCmp(vx, vy) <= 0 THEN vx ELSE vy)

\* x * k / 10^e for a small k: the factor 0.3 is DecScale(x, 3, 1).
DecScale(x, k, e) ==
    Const(x, LAMBDA vx :
        IF vx.inf THEN Infinity
        ELSE Double(Dec(BigMulSmall(vx.n, k), vx.e + e)))

\* Math.pow(0.5, k)
\* 0.5^k is 5^k / 10^k.
DecHalfPow(exponent) == Const(exponent, LAMBDA k : Dec(BigPow(5, k), k))

\* Math.round(x / (divisors[1] * divisors[2] * ...)), a half going up:
\* floor((2 n + d 10^e) / (2 d 10^e)).
\* Math.round(Infinity) is Infinity.
RoundedQuotient(x, divisors) ==
    Const2(x, divisors, LAMBDA vx, d :
        IF vx.inf THEN Infinity
        ELSE
        Dec(BigDivAll(BigDivPow10(BigAdd(BigMulSmall(vx.n, 2),
                                         BigMul(BigProduct(d, 1),
                                                BigPow10(vx.e))),
                                  vx.e),
                      <<2>> \o d, 1),
            0))

(***************************************************************************)
(* data/advancedPatterns.ts: the date and phone patterns.  DATE_PATTERNS   *)
(* and PHONE_PATTERNS hold RegExp objects created once, when the module is *)
(* loaded; each carries a lastIndex that test() reads and writes when the  *)
(* object has the g flag.  The variable lastIndex is that field of the     *)
(* nine objects.                                                           *)
(***************************************************************************)
\* \w, and \b before the character at position i (1 .. Len + 1)
WordChar(c) == c \in LowerLetters \cup UpperLetters \cup Digits \cup {"_"}

WordAt(str, i) == i >= 1 /\ i <= Len(str) /\ WordChar(str[i])

Boundary(str, i) == WordAt(str, i - 1) # WordAt(str, i)

DigitAt(str, i) == i >= 1 /\ i <= Len(str) /\ str[i] \in Digits

CharAt(str, i, chars) == i >= 1 /\ i <= Len(str) /\ str[i] \in chars

DigitsAt(str, i, n) == \A j \in 0..(n - 1) : DigitAt(str, i + j)

\* \s
WhiteSpace == {" ", "\t", "\n", "\r", "\f"}

\* Each matcher gives the length of the match that starts at position i,
\* or 0 when the pattern does not match there.

\* /\b(19|20)\d{2}\b/
YearAt(str, i) ==
    IF /\ Boundary(str, i)
       /\ \/ CharAt(str, i, {"1"}) /\ CharAt(str, i + 1, {"9"})
          \/ CharAt(str, i, {"2"}) /\ CharAt(str, i + 1, {"0"})
       /\ DigitsAt(str, i + 2, 2)
       /\ Boundary(str, i + 4)
    THEN 4 ELSE 0

\* (0[1-9]|1[0-2])
MonthAt(str, i) ==
    \/ CharAt(str, i, {"0"}) /\ CharAt(str, i + 1, Digits \ {"0"})
    \/ CharAt(str, i, {"1"}) /\ CharAt(str, i + 1, {"0", "1", "2"})

\* (0[1-9]|[12]\d|3[01])
DayAt(str, i) ==
    \/ CharAt(str, i, {"0"}) /\ CharAt(str, i + 1, Digits \ {"0"})
    \/ CharAt(str, i, {"1", "2"}) /\ DigitAt(str, i + 1)
    \/ CharAt(str, i, {"3"}) /\ CharAt(str, i + 1, {"0", "1"})

\* /\b(0[1-9]|1[0-2])(0[1-9]|[12]\d|3[01])\b/
MonthDayAt(str, i) ==
    IF Boundary(str, i) /\ MonthAt(str, i) /\ DayAt(str, i + 2)
        /\ Boundary(str, i + 4)
    THEN 4 ELSE 0

\* /\b(0[1-9]|[12]\d|3[01])(0[1-9]|1[0-2])\b/
DayMonthAt(str, i) ==
    IF Boundary(str, i) /\ DayAt(str, i) /\ MonthAt(str, i + 2)
        /\ Boundary(str, i + 4)
    THEN 4 ELSE 0

\* The one length in lengths, or 0: the separators and the closing \b leave
\* a pattern at most one way to match from a given start.
OneLength(lengths) == IF lengths = {} THEN 0 ELSE CHOOSE n \in lengths : TRUE

\* /\b\d{1,2}S\d{1,2}S\d{2,4}\b/ for the separator S
SeparatedDateAt(str, i, sep) ==
    IF ~(Boundary(str, i) /\ DigitAt(str, i)) THEN 0 ELSE
    OneLength({t[1] + t[2] + t[3] + 2 :
        t \in {u \in (1..2) \X (1..2) \X (2..4) :
            /\ DigitsAt(str, i, u[1])
            /\ CharAt(str, i + u[1], {sep})
            /\ DigitsAt(str, i + u[1] + 1, u[2])
            /\ CharAt(str, i + u[1] + 1 + u[2], {sep})
            /\ DigitsAt(str, i + u[1] + u[2] + 2, u[3])
            /\ Boundary(str, i + u[1] + u[2] + 2 + u[3])}})

\* /\b\d{3}-?\d{3}-?\d{4}\b/
DashedPhoneAt(str, i) ==
    IF ~(Boundary(str, i) /\ DigitsAt(str, i, 3)) THEN 0 ELSE
    OneLength({10 + t[1] + t[2] :
        t \in {u \in (0..1) \X (0..1) :
            /\ u[1] = 1 => CharAt(str, i + 3, {"-"})
            /\ DigitsAt(str, i + 3 + u[1], 3)
            /\ u[2] = 1 => CharAt(str, i + 6 + u[1], {"-"})
            /\ DigitsAt(str, i + 6 + u[1] + u[2], 4)
            /\ Boundary(str, i + 10 + u[1] + u[2])}})

\* /\b\(\d{3}\)\s?\d{3}-?\d{4}\b/
AreaCodePhoneAt(str, i) ==
    IF ~(Boundary(str, i) /\ CharAt(str, i, {"("})) THEN 0 ELSE
    OneLength({12 + t[1] + t[2] :
        t \in {u \in (0..1) \X (0..1) :
            /\ DigitsAt(str, i + 1, 3)
            /\ CharAt(str, i + 4, {")"})
            /\ u[1] = 1 => CharAt(str, i + 5, WhiteSpace)
            /\ DigitsAt(str, i + 5 + u[1], 3)
            /\ u[2] = 1 => CharAt(str, i + 8 + u[1], {"-"})
            /\ DigitsAt(str, i + 8 + u[1] + u[2], 4)
            /\ Boundary(str, i + 12 + u[1] + u[2])}})

\* /\b\d{10}\b/
TenDigitsAt(str, i) ==
    IF Boundary(str, i) /\ DigitsAt(str, i, 10) /\ Boundary(str, i + 10)
    THEN 10 ELSE 0

MatchLength(shape, str, i) ==
    CASE shape = "year" -> YearAt(str, i)
      [] shape = "monthDay" -> MonthDayAt(str, i)
      [] shape = "dayMonth" -> DayMonthAt(str, i)
      [] shape = "slashDate" -> SeparatedDateAt(str, i, "/")
      [] shape = "dashDate" -> SeparatedDateAt(str, i, "-")
      [] shape = "dotDate" -> SeparatedDateAt(str, i, ".")
      [] shape = "dashedPhone" -> DashedPhoneAt(str, i)
      [] shape = "areaCodePhone" -> AreaCodePhoneAt(str, i)
      [] shape = "tenDigits" -> TenDigitsAt(str, i)

\* A RegExp literal: what it matches and its flags
RegExp(shape, flags) == [shape |-> shape, flags |-> flags]

DATE_PATTERNS_Global ==
    << RegExp("year", {"g"}), RegExp("monthDay", {"g"}),
       RegExp("dayMonth", {"g"}), RegExp("slashDate", {"g"}),
       RegExp("dashDate", {"g"}), RegExp("dotDate", {"g"}) >>

DATE_PATTERNS ==
    << RegExp("year", {}), RegExp("monthDay", {}), RegExp("dayMonth", {}),
       RegExp("slashDate", {}), RegExp("dashDate", {}), RegExp("dotDate", {}) >>

PHONE_PATTERNS ==
    << RegExp("dashedPhone", {}), RegExp("areaCodePhone", {}),
       RegExp("tenDigits", {}) >>

\* The lastIndex of every object when the module has been loaded
FreshLastIndex ==
    [date |-> [k \in 1..Len(DATE_PATTERNS) |-> 0],
     phone |-> [k \in 1..Len(PHONE_PATTERNS) |-> 0]]

\* The first position from `from` on where the pattern matches, or 0
Find(regexp, str, from) ==
    Const({i \in from..Len(str) : MatchLength(regexp.shape, str, i) > 0},
          LAMBDA hits :
        IF hits = {} THEN 0 ELSE CHOOSE i \in hits : \A j \in hits : i <= j)

\* RegExp.prototype.test: with the g flag the search starts at lastIndex
\* (0-based) and leaves lastIndex at the end of the match, or at 0 when
\* there is none; without it the search starts at 0 and lastIndex stays.
Test(regexp, str, index) ==
    IF "g" \in regexp.flags
    THEN Const(IF index > Len(str) THEN 0 ELSE Find(regexp, str, index + 1),
               LAMBDA i :
            IF i = 0
            THEN [value |-> FALSE, lastIndex |-> 0]
            ELSE [value |-> TRUE,
                  lastIndex |-> i - 1 + MatchLength(regexp.shape, str, i)])
    ELSE [value |-> Find(regexp, str, 1) # 0, lastIndex |-> index]

\* patterns.some(pattern => pattern.test(password)): stops at the first hit
RECURSIVE SomeFrom(_, _, _, _)
SomeFrom(patterns, str, indexes, k) ==
    IF k > Len(patterns)
    THEN [value |-> FALSE, lastIndex |-> indexes]
    ELSE Const(Test(patterns[k], str, indexes[k]), LAMBDA t :
         Const([indexes EXCEPT ![k] = t.lastIndex], LAMBDA after :
            IF t.value
            THEN [value |-> TRUE, lastIndex |-> after]
            ELSE SomeFrom(patterns, str, after, k + 1)))

ContainsDatePattern(password, indexes) ==
    Const(indexes, LAMBDA before :
        LET r == SomeFrom(DATE_PATTERNS, password, before.date, 1)
        IN  [value |-> r.value,
             lastIndex |-> [before EXCEPT !.date = r.lastIndex]])

ContainsPhonePattern(password, indexes) ==
    Const(indexes, LAMBDA before :
        LET r == SomeFrom(PHONE_PATTERNS, password, before.phone, 1)
        IN  [value |-> r.value,
             lastIndex |-> [before EXCEPT !.phone = r.lastIndex]])

\* for (const word of category) if (includes) { penalty *= 0.5; break; }
CategoryHit(lowerPassword, category) ==
    \E i \in 1..Len(category) : Includes(lowerPassword, category[i])

RECURSIVE CategoryPenalty(_, _, _)
CategoryPenalty(penalty, lowerPassword, c) ==
    IF c > Len(COMMON_WORDS) THEN penalty
    ELSE CategoryPenalty(
            IF CategoryHit(lowerPassword, COMMON_WORDS[c])
            THEN DecScale(penalty, 5, 1) ELSE penalty,
            lowerPassword, c + 1)

\* penalty *= factor / 10^e when cond holds
Times(penalty, cond, k, e) == IF cond THEN DecScale(penalty, k, e) ELSE penalty

\* The penalty after the leet, lexicon and keyboard factors
LeetAndKeyboardPenalty(password, lowerPassword) ==
    Const(NormalizeLeetSpeak(password), LAMBDA normalizedPassword :
        Times(Times(Times(DecOne, normalizedPassword # lowerPassword, 3, 1),
                    normalizedPassword \in ExtendedSet, 1, 3),
              ContainsKeyboardPattern(password), 1, 1))

\* The penalty, and the lastIndex fields after the two pattern tests
CalculateAdvancedPatternPenalty(password, indexes) ==
    Const(ToLowerCase(password), LAMBDA lowerPassword :
    Const(ContainsDatePattern(password, indexes), LAMBDA date :
    Const(ContainsPhonePattern(password, date.lastIndex), LAMBDA phone :
        LET p3 == LeetAndKeyboardPenalty(password, lowerPassword)
            p4 == Times(p3, date.value, 2, 1)
            p5 == Times(p4, phone.value, 1, 1)
            p6 == CategoryPenalty(p5, lowerPassword, 1)
            p7 == Times(p6, CategoryHit(lowerPassword, COMMON_FIRST_NAMES), 3, 1)
        IN  [value |-> DecMax(Dec(<<1>>, 6), p7),
             lastIndex |-> phone.lastIndex])))

(***************************************************************************)
(* passwordChecker.ts: keyspace and crack time                             *)
(***************************************************************************)
ExtractPotentialBaseWords(password) ==
    Const(NormalizeLeetSpeak(ToLowerCase(password)), LAMBDA normalized :
        SelectSeq(EXTENDED_COMMON_PASSWORDS,
                  LAMBDA word : Len(word) >= 4 /\ Includes(normalized, word)))

\* Math.max(...baseWords.map(w => w.length)) of a non-empty list
MaxWordLength(baseWords) ==
    Const({Len(baseWords[i]) : i \in 1..Len(baseWords)}, LAMBDA lengths :
        CHOOSE m \in lengths : \A n \in lengths : n <= m)

CalculateHybridAttackPenalty(password) ==
    Const(ExtractPotentialBaseWords(password), LAMBDA baseWords :
        IF Len(baseWords) > 0
        THEN DecMin(Dec(<<1>>, 1),
                    DecHalfPow(Len(password) - MaxWordLength(baseWords)))
        ELSE DecOne)

GetCharType(char) ==
    IF char \in LowerLetters THEN "lower"
    ELSE IF char \in UpperLetters THEN "upper"
    ELSE IF char \in Digits THEN "number"
    ELSE "symbol"

\* The positions i (0-based, 1 .. length-2) whose neighbours share a type
\* that the character itself does not have.
AlternatingCount(password) ==
    Cardinality({i \in 2..(Len(password) - 1) :
        /\ GetCharType(password[i - 1]) = GetCharType(password[i + 1])
        /\ GetCharType(password[i - 1]) # GetCharType(password[i])})

\* for (let i = 0; i <= length - len * 2; i++) if (substring === next) ...
RepeatedBlock(password, len) ==
    \E i \in 1..(Len(password) - 2 * len + 1) :
        \A j \in 0..(len - 1) : password[i + j] = password[i + j + len]

\* The outer loop over len = 2 .. floor(length / 2): the break leaves the
\* inner loop only, so each block length with a repeat multiplies by 0.2,
\* and count of them by 2^count / 10^count.
RepeatedBlockPenalty(penalty, password) ==
    Const(Cardinality({len \in 2..(Len(password) \div 2) :
                          RepeatedBlock(password, len)}),
          LAMBDA count :
        DecMul(penalty, Dec(BigPow(2, count), count)))

CalculateStatisticalPenalty(password) ==
    IF Len(password) < 3
    THEN DecOne
    ELSE LET p1 == Times(DecOne,
                         10 * AlternatingCount(password) > 4 * Len(password),
                         3, 1)
         IN  DecMax(Dec(<<1>>, 3), RepeatedBlockPenalty(p1, password))

KeyspaceCharsetSize(analysis) ==
    (IF analysis.hasLowercase THEN 26 ELSE 0)
    + (IF analysis.hasUppercase THEN 26 ELSE 0)
    + (IF analysis.hasNumbers THEN 10 ELSE 0)
    + (IF analysis.hasSymbols THEN 32 ELSE 0)

\* patternPenalty, from the advanced penalty on
PatternPenalty(advancedPenalty, password) ==
    LET p1 == Times(advancedPenalty, HasRepeatingPatterns(password), 5, 2)
        p2 == Times(p1, HasSequentialPattern(password), 5, 2)
        p3 == DecMul(p2, CalculateHybridAttackPenalty(password))
    IN  DecMul(p3, CalculateStatisticalPenalty(password))

\* calculateKeyspace with the leet-speak test ahead of the lexicon test
CalculateKeyspaceLeetFirst(analysis, password, indexes) ==
    IF NormalizeLeetSpeak(password) \in ExtendedSet
    THEN [value |-> DecInt(Min(1000, Len(password) * 10)), lastIndex |-> indexes]
    ELSE IF analysis.isCommonPassword \/ ToLowerCase(password) \in ExtendedSet
    THEN [value |-> DecOne, lastIndex |-> indexes]
    ELSE
    Const(CalculateAdvancedPatternPenalty(password, indexes),
          LAMBDA advancedPenalty :
        [value |-> DecMax(DecOne,
                          DecMul(MathPow(KeyspaceCharsetSize(analysis),
                                         Len(password)),
                                 PatternPenalty(advancedPenalty.value,
                                                password))),
         lastIndex |-> advancedPenalty.lastIndex])

CalculateKeyspace(analysis, password, indexes) ==
    IF analysis.isCommonPassword \/ ToLowerCase(password) \in ExtendedSet
    THEN [value |-> DecOne, lastIndex |-> indexes]
    ELSE IF NormalizeLeetSpeak(password) \in ExtendedSet
    THEN [value |-> DecInt(Min(1000, Len(password) * 10)), lastIndex |-> indexes]
    ELSE
    Const(CalculateAdvancedPatternPenalty(password, indexes),
          LAMBDA advancedPenalty :
        LET charsetSize == KeyspaceCharsetSize(analysis)
            patternPenalty == PatternPenalty(advancedPenalty.value, password)
            keyspace == DecMul(MathPow(charsetSize, Len(password)),
                               patternPenalty)
        IN  [value |-> DecMax(DecOne, keyspace),
             lastIndex |-> advancedPenalty.lastIndex])

ExtendedSize == Cardinality(ExtendedSet)

\* containsDatePattern(password) || containsPhonePattern(password)
ContainsDateOrPhonePattern(password, indexes) ==
    Const(ContainsDatePattern(password, indexes), LAMBDA date :
        IF date.value THEN date
        ELSE ContainsPhonePattern(password, date.lastIndex))

\* calculateSmartAttackKeyspace with the keyboard test ahead of the date
\* and phone tests
CalculateSmartAttackKeyspaceKeyboardFirst(password, baseKeyspace, indexes) ==
    Const(ExtractPotentialBaseWords(password), LAMBDA baseWords :
        IF Len(baseWords) > 0
        THEN [value |->
                DecMin(baseKeyspace,
                       DecMul(DecInt(ExtendedSize),
                              MathPow(100,
                                      Len(password) - MaxWordLength(baseWords)))),
              lastIndex |-> indexes]
        ELSE IF ContainsKeyboardPattern(password)
        THEN [value |-> DecMin(baseKeyspace, MathPow(10, Len(password))),
              lastIndex |-> indexes]
        ELSE
        Const(ContainsDateOrPhonePattern(password, indexes),
              LAMBDA dateOrPhone :
            [value |->
                IF dateOrPhone.value
                THEN DecMin(baseKeyspace,
                            DecMul(MathPow(10, Len(password)), DecInt(1000)))
                ELSE baseKeyspace,
             lastIndex |-> dateOrPhone.lastIndex]))

CalculateSmartAttackKeyspace(password, baseKeyspace, indexes) ==
    Const(ExtractPotentialBaseWords(password), LAMBDA baseWords :
        IF Len(baseWords) > 0
        THEN [value |->
                DecMin(baseKeyspace,
                       DecMul(DecInt(ExtendedSize),
                              MathPow(100,
                                      Len(password) - MaxWordLength(baseWords)))),
              lastIndex |-> indexes]
        ELSE
        Const(ContainsDateOrPhonePattern(password, indexes),
              LAMBDA dateOrPhone :
            IF dateOrPhone.value
            THEN [value |->
                    DecMin(baseKeyspace,
                           DecMul(MathPow(10, Len(password)), DecInt(1000))),
                  lastIndex |-> dateOrPhone.lastIndex]
            ELSE IF ContainsKeyboardPattern(password)
            \* Math.pow(1000, length / 3) is 10^length
            THEN [value |->
                    DecMin(baseKeyspace, MathPow(10, Len(password))),
                  lastIndex |-> dateOrPhone.lastIndex]
            ELSE [value |-> baseKeyspace,
                  lastIndex |-> dateOrPhone.lastIndex]))

\* `${count} ${unit}${suffix}`, or "instantly"
Instantly ==
    [instantly |-> TRUE, count |-> DecInt(0), unit |-> "", suffix |-> ""]

Readable(count, unit, singular) ==
    [instantly |-> FALSE, count |-> count, unit |-> unit,
     suffix |-> IF singular THEN "" ELSE "s"]

\* `${Math.round(x)} ${unit}${Math.round(x) === 1 ? '' : 's'}`
\* for x = seconds / (divisors[1] * divisors[2] * ...)
RoundedReadable(seconds, divisors, unit) ==
    Const(RoundedQuotient(seconds, divisors), LAMBDA n :
        Readable(n, unit, n = DecOne))

Minute == <<60>>
Hour == <<60, 60>>
Day == <<60, 60, 24>>
Month == <<60, 60, 24, 30>>
Year == <<60, 60, 24, 30, 12>>

\* seconds / unit < limit
Below(seconds, unit, limit) ==
    DecLT(seconds, Dec(BigMul(BigProduct(unit, 1), limit), 0))

FormatCrackTime(seconds) ==
    IF DecLT(seconds, DecOne) THEN Instantly
    ELSE IF DecLT(seconds, DecInt(60))
    THEN Readable(RoundedQuotient(seconds, <<>>), "second", DecEq(seconds, DecOne))
    ELSE IF Below(seconds, Minute, <<60>>)
    THEN RoundedReadable(seconds, Minute, "minute")
    ELSE IF Below(seconds, Hour, <<24>>)
    THEN RoundedReadable(seconds, Hour, "hour")
    ELSE IF Below(seconds, Day, <<30>>)
    THEN RoundedReadable(seconds, Day, "day")
    ELSE IF Below(seconds, Month, <<12>>)
    THEN RoundedReadable(seconds, Month, "month")
    ELSE IF Below(seconds, Year, <<1000>>)
    THEN RoundedReadable(seconds, Year, "year")
    ELSE IF Below(seconds, Year, <<0, 100>>)
    THEN RoundedReadable(seconds, Year \o <<1000>>, "thousand year")
    ELSE IF Below(seconds, Year, <<0, 0, 10>>)
    THEN RoundedReadable(seconds, Year \o <<1000, 1000>>, "million year")
    ELSE RoundedReadable(seconds, Year \o <<1000, 1000, 1000>>, "billion year")

Estimate(avgGuesses, rateExponent, scenario) ==
    Const(DecScale(avgGuesses, 1, rateExponent), LAMBDA seconds :
        [seconds |-> seconds,
         humanReadable |-> FormatCrackTime(seconds),
         attackScenario |-> scenario])

\* The attack rates 1000, 1e11 and 1e13 guesses per second, as powers of 10
OnlineRateExponent == 3
OfflineRateExponent == 11
OfflineFastRateExponent == 13

\* The three estimates for the average number of guesses
Estimates(avgGuesses) ==
    [online |-> Estimate(avgGuesses, OnlineRateExponent, "online"),
     offline |-> Estimate(avgGuesses, OfflineRateExponent, "offline"),
     offlineFast |-> Estimate(avgGuesses, OfflineFastRateExponent, "offline_fast")]

CalculateCrackTime(analysis, password, indexes) ==
    Const(CalculateKeyspace(analysis, password, indexes), LAMBDA keyspace :
    Const(CalculateSmartAttackKeyspace(password, keyspace.value,
                                       keyspace.lastIndex),
          LAMBDA smartAttackKeyspace :
    Const(DecMax(DecOne, DecScale(smartAttackKeyspace.value, 5, 1)),
          LAMBDA avgGuesses :
        [value |-> Estimates(avgGuesses),
         lastIndex |-> smartAttackKeyspace.lastIndex])))

\* checkPassword from the given lastIndex fields: what it returns, and the
\* fields it leaves
CheckPasswordFrom(password, indexes) ==
    Const(AnalyzePassword(password), LAMBDA analysis :
    Const(CalculateScore(analysis, password), LAMBDA score :
    Const(CalculateCrackTime(analysis, password, indexes), LAMBDA crackTime :
        [value |-> [score |-> score,
                    verdict |-> GetVerdict(score),
                    suggestions |-> GenerateSuggestions(analysis),
                    crackTime |-> crackTime.value],
         lastIndex |-> crackTime.lastIndex])))

(***************************************************************************)
(* passwordGenerator.ts: generateMemorablePassword                         *)
(***************************************************************************)
MemorableWords ==
    <<<<"a", "p", "p", "l", "e">>,
      <<"b", "r", "a", "v", "e">>,
      <<"c", "h", "a", "i", "r">>,
      <<"d", "a", "n", "c", "e">>,
      <<"e", "a", "g", "l", "e">>,
      <<"f", "l", "a", "m", "e">>,
      <<"g", "r", "a", "c", "e">>,
      <<"h", "e", "a", "r", "t">>,
      <<"i", "m", "a", "g", "e">>,
      <<"j", "e", "w", "e", "l">>,
      <<"k", "n", "i", "g", "h", "t">>,
      <<"l", "i", "g", "h", "t">>,
      <<"m", "a", "g", "i", "c">>,
      <<"n", "o", "b", "l", "e">>,
      <<"o", "c", "e", "a", "n">>,
      <<"p", "e", "a", "c", "e">>,
      <<"q", "u", "e", "e", "n">>,
      <<"r", "i", "v", "e", "r">>,
      <<"s", "t", "o", "n", "e">>,
      <<"t", "i", "g", "e", "r">>,
      <<"u", "n", "i", "t", "y">>,
      <<"v", "o", "i", "c", "e">>,
      <<"w", "o", "r", "l", "d">>,
      <<"y", "o", "u", "t", "h">>,
      <<"z", "e", "b", "r", "a">>,
      <<"a", "n", "g", "e", "l">>,
      <<"b", "e", "a", "c", "h">>,
      <<"c", "l", "o", "u", "d">>,
      <<"d", "r", "e", "a", "m">>,
      <<"e", "a", "r", "t", "h">>,
      <<"f", "r", "e", "s", "h">>,
      <<"g", "r", "e", "e", "n">>,
      <<"h", "a", "p", "p", "y">>,
      <<"i", "d", "e", "a", "l">>,
      <<"j", "o", "l", "l", "y">>,
      <<"k", "a", "r", "m", "a">>,
      <<"l", "a", "u", "g", "h">>,
      <<"m", "u", "s", "i", "c">>,
      <<"n", "a", "t", "u", "r", "e">>,
      <<"o", "u", "t", "e", "r">>,
      <<"p", "o", "w", "e", "r">>,
      <<"q", "u", "i", "e", "t">>,
      <<"r", "a", "p", "i", "d">>,
      <<"s", "m", "i", "l", "e">>,
      <<"t", "r", "u", "s", "t">>,
      <<"u", "r", "b", "a", "n">>,
      <<"v", "i", "t", "a", "l">>,
      <<"w", "o", "n", "d", "e", "r">>>>
MemorableSymbols == <<"!", "@", "#", "$", "%", "&", "*">>

\* String(n) for n >= 0
RECURSIVE NumberToString(_)
NumberToString(n) ==
    IF n < 10 THEN <<NUMBERS[n + 1]>>
    ELSE NumberToString(n \div 10) \o <<NUMBERS[(n % 10) + 1]>>

UpperOf(c) ==
    IF c \in LowerLetters
    THEN UPPERCASE[CHOOSE i \in 1..Len(LOWERCASE) : LOWERCASE[i] = c]
    ELSE c

\* The word as it is in the list
CapitalizeNothing(word) == word

\* randomWord.charAt(0).toUpperCase() + randomWord.slice(1)
Capitalize(word) == <<UpperOf(word[1])>> \o Tail(word)

\* selectedWords.join('-') for the words drawn with draws i .. wordCount
RECURSIVE JoinWords(_, _, _)
JoinWords(rnd, i, wordCount) ==
    IF i > wordCount THEN <<>>
    ELSE (IF i > 1 THEN <<"-">> ELSE <<>>)
         \o Capitalize(MemorableWords[
                GetSecureRandomInt(Rand(rnd, i - 1), Len(MemorableWords)) + 1])
         \o JoinWords(rnd, i + 1, wordCount)

GenerateMemorablePasswordFrom(wordCount, addNumbers, addSymbols, rnd) ==
    LET joined == JoinWords(rnd, 1, wordCount)
        numbered ==
            IF addNumbers
            THEN joined \o <<"-">>
                 \o NumberToString(GetSecureRandomInt(Rand(rnd, wordCount), 100))
            ELSE joined
        k == wordCount + (IF addNumbers THEN 1 ELSE 0)
        password ==
            IF addSymbols
            THEN numbered \o <<MemorableSymbols[
                    GetSecureRandomInt(Rand(rnd, k), Len(MemorableSymbols)) + 1]>>
            ELSE numbered
    IN  [kind |-> "ok", value |-> password,
         draws |-> k + (IF addSymbols THEN 1 ELSE 0)]

(***************************************************************************)
(* The disposable email providers (data/disposableEmailProviders.ts).      *)
(* Date.now() is the variable clock, in milliseconds.  A call that awaits  *)
(* fetchDisposableDomains() stays in fetching, with the time it has read,  *)
(* until its request settles; the requests of different calls settle in    *)
(* any order.                                                              *)
(***************************************************************************)
FALLBACK_DISPOSABLE_DOMAINS ==
    {
    <<"1","0","m","i","n","u","t","e","m","a","i","l",".","c","o","m">>,
    <<"m","a","i","l","i","n","a","t","o","r",".","c","o","m">>,
    <<"g","u","e","r","r","i","l","l","a","m","a","i","l",".","c","o","m">>,
    <<"t","e","m","p","m","a","i","l",".","o","r","g">>,
    <<"y","o","p","m","a","i","l",".","c","o","m">>,
    <<"t","h","r","o","w","a","w","a","y",".","e","m","a","i","l">>,
    <<"g","e","t","n","a","d","a",".","c","o","m">>,
    <<"m","a","i","l","d","r","o","p",".","c","c">>,
    <<"s","h","a","r","k","l","a","s","e","r","s",".","c","o","m">>,
    <<"d","i","s","c","a","r","d",".","e","m","a","i","l">>,
    <<"t","e","m","p","-","m","a","i","l",".","o","r","g">>,
    <<"e","m","a","i","l","o","n","d","e","c","k",".","c","o","m">>
    }

\* let disposableDomainsCache: Set<string> | null = null
NoCache == [cached |-> FALSE, domains |-> {}]
Cache(domains) == [cached |-> TRUE, domains |-> domains]

CACHE_DURATION == 24 * 60 * 60 * 1000

\* What the request to DISPOSABLE_DOMAINS_URL comes to: a body that parses
\* to a list of strings, or one of the failures.
FetchFailures == {"error", "timeout", "unparsable"}

Bodies ==
    {
    << <<"M","a","i","l","i","n","a","t","o","r",".","C","O","M">>,
       <<"t","e","m","p","m","a","i","l",".","d","e","v">> >>,
    << >>
    }

FetchOutcomes ==
    {[failure |-> "none", body |-> body] : body \in Bodies}
        \cup {[failure |-> failure, body |-> << >>] : failure \in FetchFailures}

\* fetchDisposableDomains(): the promise resolves with the lower-cased
\* domains of the body, or rejects.
FetchDisposableDomains(outcome) ==
    IF outcome.failure = "none"
    THEN [kind |-> "resolved",
          value |-> {ToLowerCase(outcome.body[i]) : i \in 1..Len(outcome.body)}]
    ELSE [kind |-> "rejected", value |-> {}]

\* getDisposableDomains() before its await: the cache is still fresh
IsFresh(cache, last, now) == cache.cached /\ now - last < CACHE_DURATION

\* A catch block that would forget the cache
GetDisposableDomainsCatchFallback(cache) == FALLBACK_DISPOSABLE_DOMAINS

\* getDisposableDomains(), the catch block: the cached data if available,
\* otherwise the fallback
GetDisposableDomainsCatch(cache) ==
    IF cache.cached THEN cache.domains ELSE FALLBACK_DISPOSABLE_DOMAINS

\* getDisposableDomains() after its await, entered at the time now: the
\* domains it returns, and the cache and lastFetchTime it leaves.
GetDisposableDomains(fetched, now, cache, last) ==
    IF fetched.kind = "resolved"
    THEN [domains |-> fetched.value,
          cache |-> Cache(fetched.value),
          lastFetchTime |-> now]
    ELSE [domains |-> GetDisposableDomainsCatch(cache),
          cache |-> cache,
          lastFetchTime |-> last]

\* isDisposableEmailDomain(domain), the synchronous check.  The module has
\* set initializationPromise when it was loaded, so no call starts here.
IsDisposableEmailDomainSync(domain, cache) ==
    IF cache.cached
    THEN ToLowerCase(domain) \in cache.domains
    ELSE ToLowerCase(domain) \in FALLBACK_DISPOSABLE_DOMAINS

\* The domains a caller asks about
Domains ==
    {
    <<"1","0","m","i","n","u","t","e","m","a","i","l",".","c","o","m">>,
    <<"M","a","i","l","i","n","a","t","o","r",".","C","O","M">>,
    <<"g","m","a","i","l",".","c","o","m">>,
    <<"t","e","m","p","m","a","i","l",".","d","e","v">>
    }

(***************************************************************************)
(* Role-based addresses (data/roleBasedEmails.ts).                         *)
(***************************************************************************)
ROLE_BASED_EMAIL_PREFIXES ==
    {
    <<"a","d","m","i","n">>,
    <<"a","d","m","i","n","i","s","t","r","a","t","o","r">>,
    <<"r","o","o","t">>, <<"p","o","s","t","m","a","s","t","e","r">>,
    <<"w","e","b","m","a","s","t","e","r">>,
    <<"h","o","s","t","m","a","s","t","e","r">>, <<"a","b","u","s","e">>,
    <<"s","e","c","u","r","i","t","y">>, <<"p","r","i","v","a","c","y">>,
    <<"c","o","m","p","l","i","a","n","c","e">>, <<"l","e","g","a","l">>,
    <<"d","p","o">>, <<"s","u","p","p","o","r","t">>, <<"h","e","l","p">>,
    <<"h","e","l","p","d","e","s","k">>, <<"s","e","r","v","i","c","e">>,
    <<"c","u","s","t","o","m","e","r">>,
    <<"c","u","s","t","o","m","e","r","s","e","r","v","i","c","e">>,
    <<"c","o","n","t","a","c","t">>, <<"f","e","e","d","b","a","c","k">>,
    <<"c","o","m","p","l","a","i","n","t","s">>, <<"i","n","f","o">>,
    <<"i","n","f","o","r","m","a","t","i","o","n">>, <<"h","e","l","l","o">>,
    <<"i","n","q","u","i","r","i","e","s">>, <<"i","n","q","u","i","r","y">>,
    <<"g","e","n","e","r","a","l">>, <<"o","f","f","i","c","e">>,
    <<"r","e","c","e","p","t","i","o","n">>, <<"s","a","l","e","s">>,
    <<"m","a","r","k","e","t","i","n","g">>,
    <<"b","u","s","i","n","e","s","s">>,
    <<"p","a","r","t","n","e","r","s","h","i","p","s">>,
    <<"p","a","r","t","n","e","r">>, <<"p","r","e","s","s">>,
    <<"m","e","d","i","a">>, <<"p","r">>,
    <<"p","u","b","l","i","c","i","t","y">>, <<"t","e","c","h">>,
    <<"t","e","c","h","n","i","c","a","l">>, <<"i","t">>, <<"n","o","c">>,
    <<"d","e","v","o","p","s">>, <<"s","y","s","a","d","m","i","n">>,
    <<"n","e","t","w","o","r","k">>, <<"o","p","s">>,
    <<"o","p","e","r","a","t","i","o","n","s">>, <<"h","r">>,
    <<"c","a","r","e","e","r","s">>, <<"j","o","b","s">>,
    <<"r","e","c","r","u","i","t","i","n","g">>,
    <<"r","e","c","r","u","i","t","m","e","n","t">>,
    <<"t","a","l","e","n","t">>, <<"b","i","l","l","i","n","g">>,
    <<"a","c","c","o","u","n","t","s">>,
    <<"a","c","c","o","u","n","t","i","n","g">>,
    <<"f","i","n","a","n","c","e">>, <<"p","a","y","m","e","n","t","s">>,
    <<"i","n","v","o","i","c","e","s">>, <<"o","r","d","e","r","s">>,
    <<"n","o","r","e","p","l","y">>, <<"n","o","-","r","e","p","l","y">>,
    <<"d","o","n","o","t","r","e","p","l","y">>,
    <<"d","o","-","n","o","t","-","r","e","p","l","y">>,
    <<"a","u","t","o","m","a","t","e","d">>, <<"s","y","s","t","e","m">>,
    <<"n","o","t","i","f","i","c","a","t","i","o","n">>,
    <<"n","o","t","i","f","i","c","a","t","i","o","n","s">>,
    <<"a","l","e","r","t","s">>, <<"b","o","u","n","c","e">>,
    <<"b","o","u","n","c","e","s">>, <<"c","e","o">>, <<"c","t","o">>,
    <<"c","f","o">>, <<"c","o","o">>,
    <<"p","r","e","s","i","d","e","n","t">>,
    <<"d","i","r","e","c","t","o","r">>, <<"m","a","n","a","g","e","r">>,
    <<"e","x","e","c","u","t","i","v","e">>,
    <<"r","e","s","e","a","r","c","h">>,
    <<"d","e","v","e","l","o","p","m","e","n","t">>,
    <<"d","e","s","i","g","n">>, <<"e","d","i","t","o","r","i","a","l">>,
    <<"c","o","n","t","e","n","t">>, <<"c","o","m","m","u","n","i","t","y">>,
    <<"e","v","e","n","t","s">>, <<"t","r","a","i","n","i","n","g">>,
    <<"q","u","a","l","i","t","y">>, <<"q","a">>
    }

\* str.split(sep): the pieces of str between the occurrences of sep
\* The place of the k-th separator among the places at, with 0 before the
\* first and end after the last
SeparatorAt(at, k, end) ==
    IF k = 0 THEN 0
    ELSE IF k > Cardinality(at) THEN end
    ELSE CHOOSE i \in at : Cardinality({j \in at : j < i}) = k - 1

Split(str, sep) ==
    Const2(str, {i \in 1..Len(str) : str[i] = sep}, LAMBDA s, at :
        [k \in 1..(Cardinality(at) + 1) |->
            SubSeq(s, SeparatorAt(at, k - 1, Len(s) + 1) + 1,
                      SeparatorAt(at, k, Len(s) + 1) - 1)])

StartsWith(str, prefix) ==
    Len(prefix) <= Len(str) /\ SubSeq(str, 1, Len(prefix)) = prefix

\* /^[0-9._-]/
Separators == Digits \cup {".", "_", "-"}

IsRoleBasedEmail(email) ==
    IF "@" \notin Chars(email) THEN FALSE
    ELSE \E localPart \in {ToLowerCase(Split(email, "@")[1])} :
            \/ localPart \in ROLE_BASED_EMAIL_PREFIXES
            \/ \E prefix \in ROLE_BASED_EMAIL_PREFIXES :
                  /\ StartsWith(localPart, prefix)
                  /\ Len(localPart) > Len(prefix)
                  /\ localPart[Len(prefix) + 1] \in Separators

(***************************************************************************)
(* The email checker (EmailChecker.ts).                                    *)
(***************************************************************************)
\* The grave accent, which a string of this module cannot hold, is the
\* character named here.
Backquote == "grave"

\* The class of the local part in emailRegex: letters, digits and the
\* punctuation of an RFC 5322 atom.
LocalChars ==
    LowerLetters \cup UpperLetters \cup Digits
        \cup {".", "!", "#", "$", "%", "&", "'", "*", "+", "/", "=", "?",
              "^", "_", Backquote, "{", "|", "}", "~", "-"}

AlphaNumeric == LowerLetters \cup UpperLetters \cup Digits

\* [a-zA-Z0-9](?:[a-zA-Z0-9-]{0,61}[a-zA-Z0-9])? matches the whole of label
IsLabel(label) ==
    /\ Len(label) >= 1
    /\ Len(label) <= 63
    /\ label[1] \in AlphaNumeric
    /\ label[Len(label)] \in AlphaNumeric
    /\ \A i \in 1..Len(label) : label[i] \in AlphaNumeric \cup {"-"}

\* emailRegex.test(email)
EmailRegexTest(email) ==
    \E parts \in {Split(email, "@")} :
        /\ Len(parts) = 2
        /\ Len(parts[1]) >= 1
        /\ \A i \in 1..Len(parts[1]) : parts[1][i] \in LocalChars
        /\ \E labels \in {Split(parts[2], ".")} :
              \A i \in 1..Len(labels) : IsLabel(labels[i])

ValidateEmailSyntax(email) ==
    IF ~EmailRegexTest(email) THEN FALSE
    ELSE \E parts \in {Split(email, "@")} :
            \E localPart \in {parts[1]}, domain \in {parts[2]} :
                IF localPart = <<>> \/ Len(localPart) > 64 THEN FALSE
                ELSE IF domain = <<>> \/ Len(domain) > 253 THEN FALSE
                ELSE IF Includes(email, <<".", ".">>) THEN FALSE
                ELSE IF localPart[1] = "." \/ localPart[Len(localPart)] = "."
                THEN FALSE
                ELSE TRUE

\* What the resolver answers for a domain: dns.lookup finds an address or
\* fails, dns.resolveMx gives a list of records, an empty list, or fails.
LookupAnswers == {"address", "rejected"}
MxAnswers == {"records", "empty", "rejected"}

\* The answers to the lookups of one validateEmail: those of its Promise.all
\* and, when both of these have found something, those of
\* checkMailboxExists.
DnsAnswers ==
    {dns \in [lookup : LookupAnswers, mx : MxAnswers,
              again : LookupAnswers \cup {"unasked"},
              mxAgain : MxAnswers \cup {"unasked"}] :
        IF dns.lookup = "address" /\ dns.mx = "records"
        THEN dns.again # "unasked" /\ dns.mxAgain # "unasked"
        ELSE dns.again = "unasked" /\ dns.mxAgain = "unasked"}

CheckDomainExists(answer) == answer = "address"

CheckMxRecords(answer) == answer = "records"

CheckMailboxExists(email, lookupAnswer, mxAnswer) ==
    /\ CheckDomainExists(lookupAnswer)
    /\ CheckMxRecords(mxAnswer)
    /\ ValidateEmailSyntax(email)

Weights ==
    [syntax |-> 30, domain_exists |-> 25, mx_records |-> 20,
     mailbox_exists |-> 15, is_disposable |-> -20, is_role_based |-> -10]

CalculateEmailScore(validations) ==
    Max(0, Min(100,
        (IF validations.syntax THEN Weights.syntax ELSE 0)
      + (IF validations.domain_exists THEN Weights.domain_exists ELSE 0)
      + (IF validations.mx_records THEN Weights.mx_records ELSE 0)
      + (IF validations.mailbox_exists THEN Weights.mailbox_exists ELSE 0)
      + (IF validations.is_disposable THEN Weights.is_disposable ELSE 0)
      + (IF validations.is_role_based THEN Weights.is_role_based ELSE 0)))

DetermineStatus(validations, score) ==
    IF ~validations.syntax \/ ~validations.domain_exists THEN "INVALID"
    ELSE IF score >= 50 THEN "VALID" ELSE "INVALID"

SuggestFormat ==
    "Email format is invalid. Please check for typos and ensure it follows the format: user@domain.com"
SuggestDomain ==
    "The domain does not exist. Please verify the domain name is correct."
SuggestMx ==
    "The domain cannot receive emails (no MX records found). Please check if this is the correct email address."
SuggestMailbox ==
    "The mailbox may not exist or may not be accessible. Please verify this email address is active."
SuggestPermanent ==
    "This appears to be a disposable/temporary email address. Consider using a permanent email address."
SuggestPersonal ==
    "This appears to be a role-based email address (e.g., support@, admin@). Consider using a personal email address if required."

GenerateEmailSuggestions(validations) ==
    (IF ~validations.syntax THEN <<SuggestFormat>> ELSE <<>>)
        \o (IF ~validations.domain_exists THEN <<SuggestDomain>> ELSE <<>>)
        \o (IF ~validations.mx_records THEN <<SuggestMx>> ELSE <<>>)
        \o (IF ~validations.mailbox_exists THEN <<SuggestMailbox>> ELSE <<>>)
        \o (IF validations.is_disposable THEN <<SuggestPermanent>> ELSE <<>>)
        \o (IF validations.is_role_based THEN <<SuggestPersonal>> ELSE <<>>)

\* String.prototype.trim
Trim(str) ==
    Const2(str, {i \in 1..Len(str) : str[i] \notin WhiteSpace},
           LAMBDA s, kept :
               IF kept = {} THEN <<>>
               ELSE SubSeq(s, CHOOSE i \in kept : \A j \in kept : i <= j,
                              CHOOSE i \in kept : \A j \in kept : i >= j))

\* validateEmail(email), up to its async validations
NormalizedEmail(email) == ToLowerCase(Trim(email))

\* The second piece of normalizedEmail.split("@"), or the empty string
DomainOf(normalizedEmail) ==
    Const(Split(normalizedEmail, "@"),
          LAMBDA parts : IF Len(parts) >= 2 THEN parts[2] ELSE <<>>)

\* Async validations that would look the domain up whatever the syntax
AsyncValidationsAlways(normalizedEmail, domain, syntax, domains, dns) ==
    [domain_exists |-> CheckDomainExists(dns.lookup),
     mx_records |-> CheckMxRecords(dns.mx),
     is_disposable |-> ToLowerCase(domain) \in domains,
     mailbox_exists |-> FALSE,
     lookups |-> 2]

\* validateEmail(email), its async validations: the validations, and the
\* number of calls of dns.lookup and dns.resolveMx it has made.  domains is
\* the set getDisposableDomains() has given isDisposableEmailDomainAsync.
AsyncValidations(normalizedEmail, domain, syntax, domains, dns) ==
    IF syntax /\ domain # <<>>
    THEN Const2(CheckDomainExists(dns.lookup), CheckMxRecords(dns.mx),
           LAMBDA domainExists, hasMxRecords :
            [domain_exists |-> domainExists,
             mx_records |-> hasMxRecords,
             is_disposable |-> ToLowerCase(domain) \in domains,
             mailbox_exists |->
                 IF domainExists /\ hasMxRecords
                 THEN CheckMailboxExists(normalizedEmail, dns.again,
                                         dns.mxAgain)
                 ELSE FALSE,
             lookups |-> IF domainExists /\ hasMxRecords THEN 4 ELSE 2])
    ELSE [domain_exists |-> FALSE,
          mx_records |-> FALSE,
          is_disposable |-> ToLowerCase(domain) \in domains,
          mailbox_exists |-> FALSE,
          lookups |-> 0]

\* validateEmail(email): its result, and the lookups it has made
ValidateEmailResult(normalizedEmail, validations, score, lookups) ==
    [value |->
         [email |-> normalizedEmail,
          validations |-> validations,
          score |-> score,
          status |-> DetermineStatus(validations, score),
          suggestions |->
              IF score < 100
              THEN [defined |-> TRUE, list |-> GenerateEmailSuggestions(validations)]
              ELSE [defined |-> FALSE, list |-> <<>>]],
     lookups |-> lookups]

Validations(sync, found) ==
    [syntax |-> sync.syntax,
     domain_exists |-> found.domain_exists,
     mx_records |-> found.mx_records,
     mailbox_exists |-> found.mailbox_exists,
     is_disposable |-> found.is_disposable,
     is_role_based |-> sync.is_role_based]

\* validateEmail(email), its synchronous validations
SyncValidations(email) ==
    Const(NormalizedEmail(email), LAMBDA normalizedEmail :
        [normalizedEmail |-> normalizedEmail,
         domain |-> DomainOf(normalizedEmail),
         syntax |-> ValidateEmailSyntax(normalizedEmail),
         is_role_based |-> IsRoleBasedEmail(normalizedEmail)])

\* validateEmail(email) from its synchronous validations on
ValidateEmailFrom(sync, domains, dns) ==
    Const(AsyncValidations(sync.normalizedEmail, sync.domain, sync.syntax,
                           domains, dns), LAMBDA found :
    Const(Validations(sync, found), LAMBDA validations :
        ValidateEmailResult(sync.normalizedEmail, validations,
                            CalculateEmailScore(validations),
                            found.lookups)))

(***************************************************************************)
(* The calls.                                                              *)
(***************************************************************************)
FlagFields == {"numbers", "symbols", "uppercase", "lowercase", "excludeSimilar"}

\* The options records given to the generator: the empty record, and the
\* records that set every flag, with or without a length.
OptionsInputs ==
    {<<>>}
    \cup [FlagFields -> BOOLEAN]
    \cup {[f \in FlagFields \cup {"length"} |->
              IF f = "length" THEN l ELSE flags[f]] :
            l \in 0..MaxLength, flags \in [FlagFields -> BOOLEAN]}

\* The tape seed, seed + stride, seed + 2 stride, ...
Tape(seed, stride) == [k \in Nat \ {0} |-> seed + (k - 1) * stride]

\* The passwords the test suite of the checker checks
SamplePasswords ==
    {<<"A", "b", "c", "1", "!", "A", "b", "c", "1", "!", "A", "b", "c", "1", "!", "A", "b", "c", "1", "!">>,
     <<"M", "o", "d", "e", "r", "a", "t", "e", "P", "a", "s", "s", "w", "o", "r", "d", "1", "2", "3">>,
     <<"S", "t", "r", "0", "n", "g", "P", "@", "s", "s", "w", "0", "r", "d", "!", "W", "i", "t", "h", "L", "0", "t", "s", "0", "f", "C", "h", "@", "r", "s">>,
     <<"S", "t", "r", "o", "n", "g", "P", "@", "s", "s", "w", "0", "r", "d", "1", "2", "3", "!">>,
     <<"T", "e", "s", "t", "P", "a", "s", "s", "w", "o", "r", "d", "1", "2", "3", "!">>,
     <<"T", "r", "0", "u", "b", "4", "d", "o", "r", "&", "3", "!", "K", "$", "m", "G", "9", "#", "v", "Q", "2", "w", "@", "L", "p">>,
     <<"X", "j", "9", "#", "m", "K", "$", "v", "Q", "!", "2", "w">>,
     <<"X", "r", "9", "#", "K", "m", "$", "v", "Q", "!", "2", "w">>,
     <<"X", "z", "!", "7", "j", "K">>,
     <<"p", "@", "s", "s", "w", "0", "r", "d", "1", "2", "3">>,
     <<"p", "a", "s", "s", "w", "o", "r", "d", "1", "2", "3", "!">>,
     <<"q", "w", "e", "r", "t", "y", "1", "2", "3", "!">>,
     <<"a", "l", "l", "l", "o", "w", "e", "r", "c", "a", "s", "e">>,
     <<"A", "L", "L", "U", "P", "P", "E", "R", "C", "A", "S", "E">>,
     <<"N", "o", "N", "u", "m", "b", "e", "r", "s", "!">>,
     <<"N", "o", "S", "y", "m", "b", "o", "l", "s", "1", "2", "3">>,
     <<"M", "y", "V", "3", "r", "y", "$", "t", "r", "0", "n", "g", "P", "@", "s", "s", "w", "0", "r", "d", "!">>,
     <<"C", "0", "r", "r", "e", "c", "t", "-", "H", "0", "r", "s", "e", "-", "B", "@", "t", "t", "e", "r", "y", "-", "S", "t", "@", "p", "l", "e", "!">>,
     <<"P", "a", "s", "s", "w", "0", "r", "d", "1", "2", "3">>,
     <<"a", "b", "c", "d", "e", "f", "g", "h">>,
     <<"a", "a", "a", "a", "a", "a", "a", "a">>,
     <<"1", "2", "3", "4", "5", "6", "7", "8">>}

\* Passwords that hold the shapes of the pattern data: dates, phone
\* numbers, words, names, repeats, alternation, a capitalised entry, the
\* key 'p' with a year
PatternPasswords ==
    {<<"P", "A", "S", "S", "W", "O", "R", "D", "1">>,
     <<"a", "d", "m", "i", "n", "-", "1", "9", "9", "0", "-", "x">>,
     <<"1", "9", "9", "0", "-", "x", "y", "Z", "w", "q", "k">>,
     <<"1", "2", "/", "2", "5", "/", "1", "9", "9", "9">>,
     <<"1", ".", "2", ".", "9", "9">>,
     <<"0", "7", "0", "4", " ", "K", "x">>,
     <<"3", "1", "1", "2", "#">>,
     <<"5", "5", "5", "-", "1", "2", "3", "-", "4", "5", "6", "7">>,
     <<"5", "5", "5", "1", "2", "3", "4", "5", "6", "7", "!">>,
     <<"a", "(", "5", "5", "5", ")", " ", "1", "2", "3", "-", "4", "5", "6", "7">>,
     <<"a", "a", "a", "b", "c", "d", "Q">>,
     <<"r", "e", "d", "-", "t", "i", "g", "e", "r", "-", "m", "a", "r", "y">>,
     <<"1", "a", "2", "b", "3", "c", "4", "d", "5", "e", "6", "f">>,
     <<"a", "b", "a", "b", "a", "b", "a", "b", "-", "z", "z">>,
     <<"Z", "q", "7", "!", "Z", "q", "7", "!", "Z", "q", "7", "!">>,
     <<"d", "r", "a", "g", "o", "n", "!">>,
     <<"4", "d", "m", "1", "n">>,
     <<"S", "u", "n", "s", "h", "i", "n", "e", "1", "9", "9", "0">>,
     <<"2", "0", "2", "3">>,
     <<"m", "i", "c", "h", "a", "e", "l">>,
     <<"t", "3", "s", "t">>,
     <<"Z", "p", "!", "1", "9", "9", "9", "-", "K", "x", "#", "m", "V">>}

\* Passwords of the edge-case tests: symbols only, letters only
EdgePasswords ==
    {<<"!", "@", "#", "$", "%", "^", "&", "*", "(", ")", "_", "+", "-", "=", "[", "]", "{", "}", "|", ";", ":", ",", ".", "<", ">", "?">>,
     <<"A", "b", "C", "d", "E", "f", "G", "h", "I", "j", "K", "l">>}

\* str.repeat(count)
RECURSIVE Repeat(_, _)
Repeat(str, count) ==
    IF count = 0 THEN <<>> ELSE str \o Repeat(str, count - 1)

\* Passwords too long for their keyspace to be a finite double: the
\* password 'Xj9#mK$vQ!2w' of the tests, written LongRepeats times, and as
\* many letters 'a' followed by '1!' as in the test of a very long password
LongPasswords ==
    {Repeat(<<"X", "j", "9", "#", "m", "K", "$", "v", "Q", "!", "2", "w">>,
            LongRepeats),
     Repeat(<<"A">>, 100) \o <<"1", "!">>}

\* The first n characters of str
Cut(str, n) == SubSeq(str, 1, Min(n, Len(str)))

\* The texts a caller types, and the passwords checkPassword is given: what
\* has been typed of a text after 0, 1, 2, ... characters.
Phrases ==
    COMMON_PASSWORDS \cup SamplePasswords \cup PatternPasswords
        \cup EdgePasswords

Passwords ==
    {Cut(phrase, n) : phrase \in Phrases, n \in 0..MaxPwLen} \cup LongPasswords

\* str is what has been typed of a longer text, at most n characters before
IsTypedBefore(str, longer, n) ==
    /\ Len(str) <= Len(longer)
    /\ Len(longer) <= Len(str) + n
    /\ Cut(longer, Len(str)) = str

\* The emails a caller validates
Emails ==
    {
    <<"i","n","v","a","l","i","d","-","e","m","a","i","l">>,
    <<" ","T","e","s","t","@","1","0","M","i","n","u","t","e","M","a","i","l",".","c","o","m"," ">>,
    <<"a","d","m","i","n","@","g","m","a","i","l",".","c","o","m">>,
    <<"j","o","h","n",".","d","o","e","@","g","m","a","i","l",".","c","o","m">>,
    <<"a",".",".","b","@","m","a","i","l","i","n","a","t","o","r",".","c","o","m">>,
    <<"s","u","p","p","o","r","t","@">>,
    <<"a","d","m","i","n",".","@","y","o","p","m","a","i","l",".","c","o","m">>,
    <<"i","n","f","o","-","1","@","t","e","m","p","m","a","i","l",".","d","e","v">>,
    <<>>,
    Repeat(<<"a">>, 65) \o <<"@","g","m","a","i","l",".","c","o","m">>
    }

\* The module is loaded at StartTime, and the clock advances by ClockStep.
StartTime == 2 * CACHE_DURATION
ClockStep == CACHE_DURATION \div 2

\* initializeCache(), called when the module loads: getDisposableDomains()
\* has read the time and awaits its fetch.
InitializeCache == [op |-> "initializeCache", arg |-> <<>>, now |-> StartTime]

NoResult == [kind |-> "none", value |-> <<>>]
NoCall == [password |-> <<>>, result |-> NoResult]

Init ==
    /\ pc = "idle"
    /\ op = "none"
    /\ args = <<>>
    /\ result = NoResult
    /\ draws = 0
    /\ lastIndex = FreshLastIndex
    /\ prev = NoCall
    /\ disposableDomainsCache = NoCache
    /\ lastFetchTime = 0
    /\ clock = StartTime
    /\ fetching = <<InitializeCache>>

\* A call of the generator returns r; it touches no RegExp object.
Returned(name, a, r) ==
    /\ pc' = "returned"
    /\ op' = name
    /\ args' = a
    /\ result' = [kind |-> r.kind, value |-> r.value]
    /\ draws' = r.draws
    /\ lastIndex' = lastIndex
    /\ prev' = NoCall
    /\ UNCHANGED cacheVars

GeneratePassword ==
    /\ pc = "idle"
    /\ \E options \in OptionsInputs, seed \in 0..MaxSeed, stride \in 0..MaxStride :
          Returned("generatePassword",
                   [options |-> options, seed |-> seed, stride |-> stride],
                   GeneratePasswordFrom(options, Tape(seed, stride), 0))

\* The strings shuffleString is given on its own: what has been built of
\* a password of four classes, and one with a character twice
ShuffleInputs ==
    {Cut(str, n) : str \in {<<"a", "B", "3", "!">>, <<"a", "a", "B", "3">>},
                   n \in 0..MaxShuffle}

\* The random values of the draws of one shuffle of str
ShuffleTapes(str) == [1..ShuffleDraws(str) -> 0..MaxRandom]

\* The last step of generatePassword: shuffleString(password), with any
\* random value at every draw.
ShuffleStringCall ==
    /\ pc = "idle"
    /\ \E str \in ShuffleInputs : \E rnd \in ShuffleTapes(str) :
          Returned("shuffleString", [str |-> str, rnd |-> rnd],
                   [kind |-> "ok", value |-> ShuffleString(str, rnd, 0),
                    draws |-> ShuffleDraws(str)])

GenerateStrongPassword ==
    /\ pc = "idle"
    /\ \E options \in OptionsInputs, seed \in 0..MaxSeed, stride \in 0..MaxStride :
          Returned("generateStrongPassword",
                   [options |-> options, seed |-> seed, stride |-> stride],
                   GenerateStrongPasswordFrom(options, Tape(seed, stride), 0))

GenerateMemorablePassword ==
    /\ pc = "idle"
    /\ \E wordCount \in 0..MaxWords, addNumbers \in BOOLEAN,
          addSymbols \in BOOLEAN, step \in 0..MaxSeed, stride \in 0..MaxStride :
          Returned("generateMemorablePassword",
                   [wordCount |-> wordCount, addNumbers |-> addNumbers,
                    addSymbols |-> addSymbols, seed |-> step * SeedStep,
                    stride |-> stride],
                   GenerateMemorablePasswordFrom(wordCount, addNumbers,
                                                 addSymbols,
                                                 Tape(step * SeedStep, stride)))

\* checkPassword(password) runs from the lastIndex fields the calls before
\* it have left.
Checked(password, before) ==
    \E r \in {CheckPasswordFrom(password, lastIndex)} :
        /\ pc' = "returned"
        /\ op' = "checkPassword"
        /\ args' = [password |-> password]
        /\ result' = [kind |-> "ok", value |-> r.value]
        /\ draws' = 0
        /\ lastIndex' = r.lastIndex
        /\ prev' = before
        /\ UNCHANGED cacheVars

CheckPassword ==
    /\ pc = "idle"
    /\ \E password \in Passwords : Checked(password, NoCall)

\* The caller who has checked a password checks it once more, after typing
\* up to MaxSuffix more characters of the text, as a form with a strength
\* meter does.
CheckPasswordAgain ==
    /\ pc = "returned"
    /\ op = "checkPassword"
    /\ prev = NoCall
    /\ \E password \in Passwords :
          /\ IsTypedBefore(args.password, password, MaxSuffix)
          /\ Checked(password, [password |-> args.password, result |-> result])

\* The caller takes the result; nothing of the call is kept.
Return ==
    /\ pc = "returned"
    /\ pc' = "idle"
    /\ op' = "none"
    /\ args' = <<>>
    /\ result' = NoResult
    /\ draws' = 0
    /\ lastIndex' = lastIndex
    /\ prev' = NoCall
    /\ UNCHANGED cacheVars

\* A call of an email function returns r and leaves the cache as given.
Answered(name, a, r, cache, last, rest) ==
    /\ pc' = "returned"
    /\ op' = name
    /\ args' = a
    /\ result' = r
    /\ draws' = 0
    /\ lastIndex' = lastIndex
    /\ prev' = NoCall
    /\ disposableDomainsCache' = cache
    /\ lastFetchTime' = last
    /\ clock' = clock
    /\ fetching' = rest

\* A call reaches `await fetchDisposableDomains()` at the time clock.
Awaits(name, a) ==
    /\ Len(fetching) < MaxInFlight
    /\ fetching' = Append(fetching, [op |-> name, arg |-> a, now |-> clock])
    /\ UNCHANGED <<pc, op, args, result, draws, lastIndex, prev,
                   disposableDomainsCache, lastFetchTime, clock>>

\* The result of a call that has asked getDisposableDomains() for domains:
\* fetch tells how its request went ("fresh" when it made none).
Resolved(value, domains, fetch) ==
    [kind |-> "resolved", value |-> value, domains |-> domains,
     fetch |-> fetch]

\* isDisposableEmailDomain(domain)
IsDisposableEmailDomain ==
    /\ pc = "idle"
    /\ \E domain \in Domains :
          Answered("isDisposableEmailDomain", [domain |-> domain],
                   [kind |-> "ok",
                    value |-> IsDisposableEmailDomainSync(
                                  domain, disposableDomainsCache)],
                   disposableDomainsCache, lastFetchTime, fetching)

\* isDisposableEmailDomainAsync(domain), to its return or to its await
IsDisposableEmailDomainAsync ==
    /\ pc = "idle"
    /\ \E domain \in Domains :
          IF IsFresh(disposableDomainsCache, lastFetchTime, clock)
          THEN Answered("isDisposableEmailDomainAsync", [domain |-> domain],
                        Resolved(ToLowerCase(domain)
                                     \in disposableDomainsCache.domains,
                                 disposableDomainsCache.domains, "fresh"),
                        disposableDomainsCache, lastFetchTime, fetching)
          ELSE Awaits("isDisposableEmailDomainAsync", domain)

\* refreshDisposableDomainsCache(), to its await
RefreshDisposableDomainsCache ==
    /\ pc = "idle"
    /\ Awaits("refreshDisposableDomainsCache", <<>>)

RemoveAt(seq, i) == SubSeq(seq, 1, i - 1) \o SubSeq(seq, i + 1, Len(seq))

\* validateEmail(email)'s result, with the lookups it has made
Validated(sync, domains, fetch, dns) ==
    Const(ValidateEmailFrom(sync, domains, dns), LAMBDA r :
        [kind |-> "resolved", value |-> r.value, domains |-> domains,
         fetch |-> fetch, lookups |-> r.lookups])

\* validateEmail(email), to its return or to the await of its
\* isDisposableEmailDomainAsync(domain)
ValidateEmail ==
    /\ pc = "idle"
    /\ \E email \in Emails :
          IF IsFresh(disposableDomainsCache, lastFetchTime, clock)
          THEN \E sync \in {SyncValidations(email)}, dns \in DnsAnswers :
                  Answered("validateEmail", [email |-> email],
                           Validated(sync, disposableDomainsCache.domains,
                                     "fresh", dns),
                           disposableDomainsCache, lastFetchTime, fetching)
          ELSE Awaits("validateEmail", email)

\* The arguments of a call that has awaited its fetch
ArgsOf(call) ==
    CASE call.op = "isDisposableEmailDomainAsync" -> [domain |-> call.arg]
      [] call.op = "validateEmail" -> [email |-> call.arg]
      [] OTHER -> <<>>

\* The request of a call of getDisposableDomains() settles: the call goes
\* on after its await and returns.
GetDisposableDomainsSettles(call, outcome, rest) ==
    \E got \in {GetDisposableDomains(FetchDisposableDomains(outcome),
                                     call.now, disposableDomainsCache,
                                     lastFetchTime)} :
        CASE call.op = "isDisposableEmailDomainAsync" ->
                 Answered(call.op, ArgsOf(call),
                          Resolved(ToLowerCase(call.arg) \in got.domains,
                                   got.domains, outcome.failure),
                          got.cache, got.lastFetchTime, rest)
          [] call.op = "validateEmail" ->
                 \E sync \in {SyncValidations(call.arg)},
                    dns \in DnsAnswers :
                     Answered(call.op, ArgsOf(call),
                              Validated(sync, got.domains, outcome.failure,
                                        dns),
                              got.cache, got.lastFetchTime, rest)
          [] OTHER ->
                 Answered(call.op, ArgsOf(call),
                          Resolved(<<>>, got.domains, outcome.failure),
                          got.cache, got.lastFetchTime, rest)

\* The request of a call of refreshDisposableDomainsCache() settles.
RefreshSettles(call, outcome, rest) ==
    \E fetched \in {FetchDisposableDomains(outcome)} :
        IF fetched.kind = "resolved"
        THEN Answered(call.op, <<>>,
                      [kind |-> "resolved", value |-> <<>>,
                       fetch |-> outcome.failure],
                      Cache(fetched.value), clock, rest)
        ELSE Answered(call.op, <<>>,
                      [kind |-> "rejected", value |-> <<>>,
                       fetch |-> outcome.failure],
                      disposableDomainsCache, lastFetchTime, rest)

FetchSettles ==
    /\ pc = "idle"
    /\ \E i \in 1..Len(fetching), outcome \in FetchOutcomes :
          IF fetching[i].op = "refreshDisposableDomainsCache"
          THEN RefreshSettles(fetching[i], outcome, RemoveAt(fetching, i))
          ELSE GetDisposableDomainsSettles(fetching[i], outcome,
                                           RemoveAt(fetching, i))

\* Time passes.
Tick ==
    /\ pc = "idle"
    /\ clock < StartTime + MaxTicks * ClockStep
    /\ clock' = clock + ClockStep
    /\ UNCHANGED <<pc, op, args, result, draws, lastIndex, prev,
                   disposableDomainsCache, lastFetchTime, fetching>>

NextGen == GeneratePassword \/ GenerateStrongPassword \/ Return

SpecGen == Init /\ [][NextGen]_vars

NextShuffle == ShuffleStringCall \/ Return

SpecShuffle == Init /\ [][NextShuffle]_vars

NextCheck == CheckPassword \/ CheckPasswordAgain \/ Return

SpecCheck == Init /\ [][NextCheck]_vars

NextMemorable == GenerateMemorablePassword \/ Return

SpecMemorable == Init /\ [][NextMemorable]_vars

NextEmail ==
    \/ IsDisposableEmailDomain
    \/ IsDisposableEmailDomainAsync
    \/ RefreshDisposableDomainsCache
    \/ ValidateEmail
    \/ FetchSettles
    \/ Tick
    \/ Return

SpecEmail == Init /\ [][NextEmail]_vars

Next ==
    \/ GeneratePassword
    \/ GenerateStrongPassword
    \/ GenerateMemorablePassword
    \/ CheckPassword
    \/ CheckPasswordAgain
    \/ Return

Spec == Init /\ [][Next]_vars

(***************************************************************************)
(* Claims about the generator.                                             *)
(***************************************************************************)
GenReturned == pc = "returned" /\ op = "generatePassword"
StrongReturned == pc = "returned" /\ op = "generateStrongPassword"

OptLength == Default(args.options, "length", DefaultLength)
OptLowercase == Default(args.options, "lowercase", TRUE)
OptUppercase == Default(args.options, "uppercase", TRUE)
OptNumbers == Default(args.options, "numbers", TRUE)
OptSymbols == Default(args.options, "symbols", TRUE)
OptExcludeSimilar == Default(args.options, "excludeSimilar", FALSE)

AnyClassEnabled == OptLowercase \/ OptUppercase \/ OptNumbers \/ OptSymbols
ValidOptions == OptLength >= 4 /\ AnyClassEnabled

IsLower(c) == c \in LowerLetters
IsUpper(c) == c \in UpperLetters
IsDigit(c) == c \in Digits
IsSymbol(c) == c \notin (LowerLetters \cup UpperLetters \cup Digits)

CountLower(str) == Cardinality({i \in 1..Len(str) : IsLower(str[i])})
CountUpper(str) == Cardinality({i \in 1..Len(str) : IsUpper(str[i])})
CountDigit(str) == Cardinality({i \in 1..Len(str) : IsDigit(str[i])})
CountSymbol(str) == Cardinality({i \in 1..Len(str) : IsSymbol(str[i])})

\* C1: whenever generatePassword is called with a length L >= 4 (12 when the
\* length is omitted) and at least one class enabled, it returns a string of
\* exactly L characters, whatever the random tape.
C1_LengthIsRequested ==
    (GenReturned /\ ValidOptions) =>
        result.kind = "ok" /\ Len(result.value) = OptLength

\* A call without a length has returned its 12 characters.
C1_Witness ==
    /\ GenReturned
    /\ "length" \notin DOMAIN args.options
    /\ result.kind = "ok"
    /\ Len(result.value) = DefaultLength

\* C2: the string generatePassword returns holds at least one character of
\* each enabled class, and with length 4 and the four classes enabled
\* exactly one of each.
C2_EveryEnabledClassPresent ==
    (GenReturned /\ result.kind = "ok") =>
        /\ OptLowercase => CountLower(result.value) >= 1
        /\ OptUppercase => CountUpper(result.value) >= 1
        /\ OptNumbers => CountDigit(result.value) >= 1
        /\ OptSymbols => CountSymbol(result.value) >= 1
        /\ (OptLength = 4 /\ OptLowercase /\ OptUppercase /\ OptNumbers
                /\ OptSymbols) =>
             /\ CountLower(result.value) = 1
             /\ CountUpper(result.value) = 1
             /\ CountDigit(result.value) = 1
             /\ CountSymbol(result.value) = 1

\* A call with length 4 and the four classes has returned, with the filter
\* of similar characters on.
C2_Witness ==
    /\ GenReturned
    /\ result.kind = "ok"
    /\ OptLength = 4
    /\ OptLowercase /\ OptUppercase /\ OptNumbers /\ OptSymbols
    /\ OptExcludeSimilar

\* C3: with excludeSimilar, the string generatePassword returns holds none
\* of the characters 0 O 1 l I |, whatever the classes and the tape.
C3_NoSimilarCharacter ==
    (GenReturned /\ result.kind = "ok" /\ OptExcludeSimilar) =>
        Chars(result.value) \cap Chars(SIMILAR_CHARS) = {}

\* A call with excludeSimilar and digits only has returned.
C3_Witness ==
    /\ GenReturned
    /\ result.kind = "ok"
    /\ OptExcludeSimilar
    /\ OptNumbers /\ ~OptLowercase /\ ~OptUppercase /\ ~OptSymbols

\* C4 as stated: both generators throw InvalidLength for every length < 4
\* and NoCharacterClassSelected whenever the four classes are off, before
\* any draw.
C4_Original ==
    (GenReturned \/ StrongReturned) =>
        /\ OptLength < 4 =>
             result.kind = "error" /\ result.value = InvalidLength
        /\ ~AnyClassEnabled =>
             result.kind = "error" /\ result.value = NoCharacterClassSelected
        /\ result.kind = "error" => draws = 0

\* C4, amended: both generators throw InvalidLength for every length < 4,
\* and NoCharacterClassSelected when the four classes are off and the length
\* is at least 4 (the length is tested first); a call that throws has made
\* no draw and returns no string.
C4_ValidationErrors ==
    (GenReturned \/ StrongReturned) =>
        /\ OptLength < 4 =>
             result.kind = "error" /\ result.value = InvalidLength
        /\ (OptLength >= 4 /\ ~AnyClassEnabled) =>
             result.kind = "error" /\ result.value = NoCharacterClassSelected
        /\ result.kind = "error" => draws = 0
        /\ result.kind = "ok" => ValidOptions

\* generateStrongPassword has thrown NoCharacterClassSelected.
C4_Witness ==
    /\ StrongReturned
    /\ result.kind = "error"
    /\ result.value = NoCharacterClassSelected
    /\ draws = 0

\* The pools the options enable, as sets of characters.
EnabledPool ==
    (IF OptLowercase THEN LowerLetters ELSE {})
    \cup (IF OptUppercase THEN UpperLetters ELSE {})
    \cup (IF OptNumbers THEN Digits ELSE {})
    \cup (IF OptSymbols THEN Chars(SYMBOLS) ELSE {})

\* C5: every character of the string generatePassword returns belongs to the
\* pool of an enabled class; lowercase-only options give a string of a-z.
C5_OnlyEnabledClasses ==
    (GenReturned /\ result.kind = "ok") =>
        Chars(result.value) \subseteq EnabledPool

\* A call with lowercase only has returned a string of a-z that holds an l.
C5_Witness ==
    /\ GenReturned
    /\ result.kind = "ok"
    /\ OptLowercase /\ ~OptUppercase /\ ~OptNumbers /\ ~OptSymbols
    /\ CountLower(result.value) = Len(result.value)
    /\ Len(result.value) > 4
    /\ "l" \in Chars(result.value)

\* The candidates of the call of generateStrongPassword that has returned
StrongCandidates ==
    Candidates(args.options, Tape(args.seed, args.stride), 0, Iterations)

\* C15: generateStrongPassword generates exactly 5 candidates with the
\* options it is given and returns one of them: a candidate whose simple
\* entropy no candidate exceeds, and the earliest generated of these.
C15_StrongestCandidate ==
    (StrongReturned /\ result.kind = "ok") =>
        \E candidates \in {StrongCandidates} :
            /\ candidates.kind = "ok"
            /\ Len(candidates.value) = 5
            /\ draws = candidates.draws
            /\ \E i \in 1..Len(candidates.value) :
                  /\ result.value = candidates.value[i]
                  /\ \A j \in 1..Len(candidates.value) :
                        ~NumGT(CalculateSimpleEntropy(candidates.value[j]),
                               CalculateSimpleEntropy(candidates.value[i]))
                  /\ \A j \in 1..(i - 1) :
                        NumLT(CalculateSimpleEntropy(candidates.value[j]),
                              CalculateSimpleEntropy(candidates.value[i]))

\* Five candidates of equal entropy, the last not the first, have been
\* generated and the first has been returned.
C15_Witness ==
    /\ StrongReturned
    /\ result.kind = "ok"
    /\ result.value = StrongCandidates.value[1]
    /\ result.value # StrongCandidates.value[5]
    /\ CalculateSimpleEntropy(StrongCandidates.value[5])
          = CalculateSimpleEntropy(result.value)

MemorableReturned == pc = "returned" /\ op = "generateMemorablePassword"

\* A word of the list with its first letter capitalised
IsCapitalisedWord(piece) ==
    /\ Len(piece) > 0
    /\ piece[1] \in UpperLetters
    /\ \A i \in 2..Len(piece) : piece[i] \in LowerLetters
    /\ \E k \in 1..Len(MemorableWords) :
          /\ Len(MemorableWords[k]) = Len(piece)
          /\ \A i \in 1..Len(piece) :
                LowerOf(piece[i]) = MemorableWords[k][i]

\* The decimal notation of an integer from 0 to 99
IsUpTo99(piece) ==
    /\ Len(piece) \in {1, 2}
    /\ \A i \in 1..Len(piece) : piece[i] \in Digits
    /\ Len(piece) = 2 => piece[1] # "0"

\* The result without the symbol that addSymbols has appended
BeforeSymbol ==
    IF args.addSymbols
    THEN SubSeq(result.value, 1, Len(result.value) - 1)
    ELSE result.value

\* C16: generateMemorablePassword(wordCount, addNumbers, addSymbols) with
\* wordCount >= 1 returns wordCount words of the list of 48, each with its
\* first letter capitalised, joined by '-'; then '-' and an integer from 0
\* to 99 iff addNumbers; then one character of '!@#$%&*' iff addSymbols.
\* With both flags false the result holds letters and wordCount - 1
\* hyphens only.
C16_MemorableShape ==
    (MemorableReturned /\ args.wordCount >= 1) =>
        /\ result.kind = "ok"
        /\ Len(MemorableWords) = 48
        /\ args.addSymbols =>
              /\ Len(result.value) > 0
              /\ result.value[Len(result.value)]
                    \in {"!", "@", "#", "$", "%", "&", "*"}
        /\ \E pieces \in {Split(BeforeSymbol, "-")} :
              /\ Len(pieces) = args.wordCount + (IF args.addNumbers THEN 1 ELSE 0)
              /\ \A i \in 1..args.wordCount : IsCapitalisedWord(pieces[i])
              /\ args.addNumbers => IsUpTo99(pieces[Len(pieces)])
        /\ (~args.addNumbers /\ ~args.addSymbols) =>
              /\ \A i \in 1..Len(result.value) :
                    result.value[i] \in LowerLetters \cup UpperLetters \cup {"-"}
              /\ Cardinality({i \in 1..Len(result.value) : result.value[i] = "-"})
                    = args.wordCount - 1

\* Two words, a number of two digits and a symbol have been returned.
C16_Witness ==
    /\ MemorableReturned
    /\ args.wordCount = 2
    /\ args.addNumbers
    /\ args.addSymbols
    /\ result.kind = "ok"
    /\ Len(Split(BeforeSymbol, "-")) = 3
    /\ Len(Split(BeforeSymbol, "-")[3]) = 2
    /\ Split(BeforeSymbol, "-")[1] # Split(BeforeSymbol, "-")[2]

(***************************************************************************)
(* Claims about the checker.                                               *)
(***************************************************************************)
CheckReturned == pc = "returned" /\ op = "checkPassword"
CheckedAgain == CheckReturned /\ prev # NoCall

Score == result.value.score
Suggested(suggestion) ==
    \E i \in 1..Len(result.value.suggestions) :
        result.value.suggestions[i] = suggestion

InCommonLexicon(password) == ToLowerCase(password) \in COMMON_PASSWORDS

\* C6: whenever checkPassword is given a password whose lower-cased form is
\* an entry of COMMON_PASSWORDS, it returns score 0, verdict 'weak', a
\* suggestions list that holds 'Avoid common passwords - use a unique
\* combination', and the online crack time 'instantly'.
C6_CommonPasswordIsWeak ==
    (CheckReturned /\ InCommonLexicon(args.password)) =>
        /\ Score = 0
        /\ result.value.verdict = "weak"
        /\ Suggested("Avoid common passwords - use a unique combination")
        /\ result.value.crackTime.online.humanReadable = Instantly

\* A password with a capital letter whose lower-cased form is in the
\* lexicon has been checked and scored 0.
C6_Witness ==
    /\ CheckReturned
    /\ InCommonLexicon(args.password)
    /\ TestUpper(args.password)
    /\ args.password \notin COMMON_PASSWORDS
    /\ Score = 0
    /\ result.value.crackTime.online.humanReadable = Instantly

Verdicts == {"weak", "medium", "strong", "very strong"}

Suggestions ==
    {SuggestAvoidCommon, SuggestAtLeast8, Suggest12Plus, SuggestUppercase,
     SuggestLowercase, SuggestNumbers, SuggestSpecial, SuggestMix,
     SuggestRandomness, SuggestGreat}

IsDecimal(x) ==
    /\ DOMAIN x = {"n", "e", "inf"}
    /\ x.e \in Nat
    /\ \A i \in 1..Len(x.n) : x.n[i] \in 0..(Limb - 1)

IsEstimate(estimate, scenario) ==
    /\ DOMAIN estimate = {"seconds", "humanReadable", "attackScenario"}
    /\ IsDecimal(estimate.seconds)
    /\ estimate.attackScenario = scenario
    /\ \/ estimate.humanReadable = Instantly
       \/ /\ ~estimate.humanReadable.instantly
          /\ IsDecimal(estimate.humanReadable.count)
          /\ estimate.humanReadable.count.e = 0
          /\ estimate.humanReadable.unit \in
                {"second", "minute", "hour", "day", "month", "year",
                 "thousand year", "million year", "billion year"}

\* C7: checkPassword returns for every string it is given, the empty one
\* included, a result with a score, a verdict, a list of suggestions and the
\* three crack-time estimates, and raises no error; for the empty string
\* the score is 0 and the verdict 'weak'.
C7_CheckPasswordIsTotal ==
    CheckReturned =>
        /\ result.kind = "ok"
        /\ DOMAIN result.value = {"score", "verdict", "suggestions", "crackTime"}
        /\ Score \in 0..(5 * Point)
        /\ result.value.verdict \in Verdicts
        /\ \A i \in 1..Len(result.value.suggestions) :
              result.value.suggestions[i] \in Suggestions
        /\ DOMAIN result.value.crackTime = {"online", "offline", "offlineFast"}
        /\ IsEstimate(result.value.crackTime.online, "online")
        /\ IsEstimate(result.value.crackTime.offline, "offline")
        /\ IsEstimate(result.value.crackTime.offlineFast, "offline_fast")
        /\ args.password = <<>> => Score = 0 /\ result.value.verdict = "weak"

\* The empty string has been checked: score 0, 'weak', and a crack time.
C7_Witness ==
    /\ CheckReturned
    /\ args.password = <<>>
    /\ result.kind = "ok"
    /\ Score = 0
    /\ result.value.verdict = "weak"
    /\ result.value.crackTime.offlineFast.humanReadable = Instantly

\* C8: checkPassword keeps no state and is deterministic: whatever calls of
\* checkPassword, generatePassword, generateStrongPassword and
\* generateMemorablePassword came before, the RegExp objects of the module
\* are as they were when it was loaded, a check returns what the first
\* check of a freshly loaded module returns for that password, and a check
\* repeated at once returns the same result.
C8_CheckPasswordIsStateless ==
    /\ lastIndex = FreshLastIndex
    /\ CheckReturned =>
          result.value = CheckPasswordFrom(args.password, FreshLastIndex).value
    /\ (CheckedAgain /\ prev.password = args.password) => result = prev.result

\* A password that holds a date after a dictionary word (the case in which
\* a test of a pattern is the last thing done to the RegExp objects) has
\* been checked twice in a row.
C8_Witness ==
    /\ CheckedAgain
    /\ prev.password = args.password
    /\ result = prev.result
    /\ ContainsDatePattern(args.password, FreshLastIndex).value
    /\ Len(ExtractPotentialBaseWords(args.password)) > 0
    /\ ~InCommonLexicon(args.password)

ClassesOf(str) == {GetCharType(str[i]) : i \in 1..Len(str)}

AppendedSuffix ==
    SubSeq(args.password, Len(prev.password) + 1, Len(args.password))

\* The case of C9: p = prev.password has been checked, then p + s with a
\* non-empty s of classes present in p, and both detectors answer on p + s
\* as on p.
LongerSameClasses ==
    /\ CheckedAgain
    /\ Len(args.password) > Len(prev.password)
    /\ ClassesOf(AppendedSuffix) \subseteq ClassesOf(prev.password)
    /\ HasRepeatingPatterns(args.password) = HasRepeatingPatterns(prev.password)
    /\ HasSequentialPattern(args.password) = HasSequentialPattern(prev.password)

\* C9 as stated: in that case the score of p + s is at least the score of p.
C9_Original ==
    LongerSameClasses => Score >= prev.result.value.score

\* C9: for every password p and non-empty suffix s made of characters of
\* classes present in p, if the repeating-pattern and the sequential-pattern
\* detector each answer on p + s as on p, and p + s is not a common
\* password, the score of p + s is at least the score of p.
C9_LongerScoresNoLess ==
    (LongerSameClasses /\ ~InCommonLexicon(args.password)) =>
        Score >= prev.result.value.score

\* A longer password of the same classes has scored more than the shorter.
C9_Witness ==
    /\ LongerSameClasses
    /\ ~InCommonLexicon(args.password)
    /\ Score > prev.result.value.score
    /\ prev.result.value.score > 0

\* The sum of C10 for the checked password, in tenths of a point.
StatedSum ==
    LET length == Len(args.password)
        variety == Cardinality(ClassesOf(args.password))
        entropy == CalculateEntropy(args.password)
    IN  (IF length >= 8 THEN 10 ELSE 0)
        + (IF length >= 12 THEN 10 ELSE 0)
        + (IF length >= 16 THEN 5 ELSE 0)
        + (IF variety >= 2 THEN 5 ELSE 0)
        + (IF variety >= 3 THEN 5 ELSE 0)
        + (IF variety >= 4 THEN 10 ELSE 0)
        + (IF NumGE(entropy, Num(40 * Micro)) THEN 5 ELSE 0)
        + (IF NumGE(entropy, Num(60 * Micro)) THEN 5 ELSE 0)
        + (IF NumGE(entropy, Num(80 * Micro)) THEN 5 ELSE 0)
        - (IF HasRepeatingPatterns(args.password) THEN 5 ELSE 0)
        - (IF HasSequentialPattern(args.password) THEN 5 ELSE 0)

C11_VerdictFromScore ==
    CheckReturned =>
        /\ result.value.verdict \in Verdicts
        /\ result.value.verdict = "weak" <=> Score <= 10
        /\ result.value.verdict = "medium" <=> (10 < Score /\ Score <= 25)
        /\ result.value.verdict = "strong" <=> (25 < Score /\ Score <= 40)
        /\ result.value.verdict = "very strong" <=> Score > 40
        /\ (CheckedAgain /\ prev.result.value.score = Score) =>
              prev.result.value.verdict = result.value.verdict

\* A check has scored 2.5, the greatest score of 'medium', after another
\* password with that score.
C11_Witness ==
    /\ CheckedAgain
    /\ Score = 25
    /\ prev.result.value.score = 25
    /\ prev.password # args.password
    /\ result.value.verdict = "medium"

Flags == {"hasLowercase", "hasUppercase", "hasNumbers", "hasSymbols"}

TrueFlags(analysis) == Cardinality({flag \in Flags : analysis[flag]})

\* C12: the analysis of the checked password has varietyScore equal to the
\* number of true flags among hasLowercase, hasUppercase, hasNumbers and
\* hasSymbols; it is from 0 to 4, and 0 for the empty password only.
C12_VarietyCountsFlags ==
    CheckReturned =>
        \E analysis \in {AnalyzePassword(args.password)} :
            /\ analysis.varietyScore = TrueFlags(analysis)
            /\ analysis.varietyScore \in 0..4
            /\ analysis.varietyScore = 0 <=> args.password = <<>>

\* A password of letters of both cases and nothing else has been checked:
\* two flags, variety 2.
C12_Witness ==
    /\ CheckReturned
    /\ AnalyzePassword(args.password).varietyScore = 2
    /\ TestUpper(args.password)
    /\ TestLower(args.password)

\* C13 as stated: the entropy of the analysis of the empty password is the
\* number 0, and the check of the empty password suggests 'Increase
\* randomness - avoid predictable patterns'.
C13_EmptyEntropyIsZero ==
    (CheckReturned /\ args.password = <<>>) =>
        /\ AnalyzePassword(args.password).entropy = Num(0)
        /\ Suggested("Increase randomness - avoid predictable patterns")

\* What the code does for the empty password: the entropy is NaN, no
\* entropy rule applies, and the randomness suggestion is not made.
C13_EmptyEntropyIsNaN ==
    (CheckReturned /\ args.password = <<>>) =>
        /\ AnalyzePassword(args.password).entropy = NaN
        /\ ~Suggested("Increase randomness - avoid predictable patterns")
        /\ result.value.suggestions =
              <<SuggestAtLeast8, SuggestUppercase, SuggestLowercase,
                SuggestNumbers, SuggestSpecial, SuggestMix>>

SuggestionOrder ==
    <<SuggestAvoidCommon, SuggestAtLeast8, Suggest12Plus, SuggestUppercase,
      SuggestLowercase, SuggestNumbers, SuggestSpecial, SuggestMix,
      SuggestRandomness>>

\* The condition C14 states for each suggestion but the encouragement; the
\* entropy is the one of the analysis, compared as the code compares it.
IsStated(password, suggestion) ==
    CASE suggestion = SuggestAvoidCommon -> InCommonLexicon(password)
      [] suggestion = SuggestAtLeast8 -> Len(password) < 8
      [] suggestion = Suggest12Plus -> 8 <= Len(password) /\ Len(password) < 12
      [] suggestion = SuggestUppercase -> ~TestUpper(password)
      [] suggestion = SuggestLowercase -> ~TestLower(password)
      [] suggestion = SuggestNumbers -> ~TestDigit(password)
      [] suggestion = SuggestSpecial -> ~TestSymbol(password)
      [] suggestion = SuggestMix ->
            Cardinality(ClassesOf(password)) < 3
      [] suggestion = SuggestRandomness ->
            NumLT(CalculateEntropy(password), Num(40 * Micro))

StatedSuggestions(password) ==
    LET wanted(suggestion) == IsStated(password, suggestion)
        first == SelectSeq(SuggestionOrder, wanted)
    IN  IF first = <<>> /\ NumGE(CalculateEntropy(password), Num(60 * Micro))
        THEN <<SuggestGreat>>
        ELSE first

C14_Encouraged ==
    CheckReturned /\ result.value.suggestions = <<SuggestGreat>>

\* The three estimates of the check that has returned
CrackTimes ==
    {result.value.crackTime.online, result.value.crackTime.offline,
     result.value.crackTime.offlineFast}

\* max(1, smartKeyspace / 2) for the checked password
AverageGuesses ==
    \* the keyspace and the smart-attack keyspace, as calculateCrackTime
    \* calls them
    Const(CalculateKeyspace(AnalyzePassword(args.password), args.password,
                            FreshLastIndex),
          LAMBDA keyspace :
        DecMax(DecOne,
               DecScale(CalculateSmartAttackKeyspace(
                            args.password, keyspace.value,
                            keyspace.lastIndex).value,
                        5, 1)))

\* seconds = guesses / 10^exponent
IsQuotient(seconds, guesses, exponent) ==
    seconds = DecScale(guesses, 1, exponent)

\* The estimates are the average number of guesses over the three rates,
\* and each carries the tag of its profile.
EstimatesAreQuotients ==
    \E guesses \in {AverageGuesses} :
        /\ IsQuotient(result.value.crackTime.online.seconds, guesses, 3)
        /\ IsQuotient(result.value.crackTime.offline.seconds, guesses, 11)
        /\ IsQuotient(result.value.crackTime.offlineFast.seconds, guesses, 13)
        /\ result.value.crackTime.online.attackScenario = "online"
        /\ result.value.crackTime.offline.attackScenario = "offline"
        /\ result.value.crackTime.offlineFast.attackScenario = "offline_fast"

EstimatesAreOrdered ==
    /\ DecLT(result.value.crackTime.offline.seconds,
             result.value.crackTime.online.seconds)
    /\ DecLT(result.value.crackTime.offlineFast.seconds,
             result.value.crackTime.offline.seconds)
    /\ DecLT(DecInt(0), result.value.crackTime.offlineFast.seconds)

\* C17 as stated: for every password each estimate is max(1, smartKeyspace
\* / 2) / rate, with the rates 1e3, 1e11 and 1e13, so online.seconds >
\* offline.seconds > offlineFast.seconds > 0, and each estimate carries the
\* attackScenario of its profile.
C17_EstimatesOrdered ==
    CheckReturned => (EstimatesAreQuotients /\ EstimatesAreOrdered)

\* What the code does: the estimates are the quotients, and they are
\* ordered unless the keyspace has overflowed, when the three are Infinity.
C17_OrderedUnlessInfinite ==
    CheckReturned =>
        /\ EstimatesAreQuotients
        /\ IF result.value.crackTime.online.seconds.inf
           THEN /\ result.value.crackTime.offline.seconds = Infinity
                /\ result.value.crackTime.offlineFast.seconds = Infinity
                /\ Len(args.password) >= 157
           ELSE EstimatesAreOrdered

\* A password whose keyspace overflows has been checked.
C17_Overflowed ==
    CheckReturned /\ result.value.crackTime.online.seconds = Infinity

DecIntTimes(a, b) == DecMul(DecInt(a), DecInt(b))

\* The unit C18 states for a number of seconds that is at least 1, and what
\* the unit is in seconds
StatedUnit(seconds) ==
    IF DecLT(seconds, DecInt(60)) THEN <<"second", <<>> >>
    ELSE IF DecLT(seconds, DecInt(3600)) THEN <<"minute", <<60>> >>
    ELSE IF DecLT(seconds, DecInt(86400)) THEN <<"hour", <<3600>> >>
    ELSE IF DecLT(seconds, DecIntTimes(30, 86400)) THEN <<"day", <<3600, 24>> >>
    ELSE IF DecLT(seconds, DecIntTimes(360, 86400))
    THEN <<"month", <<3600, 24, 30>> >>
    ELSE IF DecLT(seconds, DecMul(DecIntTimes(360, 86400), DecInt(1000)))
    THEN <<"year", <<3600, 24, 360>> >>
    ELSE IF DecLT(seconds, DecMul(DecIntTimes(360, 86400), DecIntTimes(1000, 1000)))
    THEN <<"thousand year", <<3600, 24, 360, 1000>> >>
    ELSE IF DecLT(seconds, DecMul(DecMul(DecIntTimes(360, 86400),
                                         DecIntTimes(1000, 1000)),
                                  DecInt(1000)))
    THEN <<"million year", <<3600, 24, 360, 1000, 1000>> >>
    ELSE <<"billion year", <<3600, 24, 360, 1000, 1000, 1000>> >>

\* The text is '<N> <unit>': N is the seconds in the unit of their range,
\* rounded.
IsStatedCount(seconds, readable) ==
    \E unit \in {StatedUnit(seconds)} :
        /\ ~readable.instantly
        /\ readable.unit = unit[1]
        /\ readable.count = RoundedQuotient(seconds, unit[2])

\* C18 as stated: formatCrackTime(seconds) is 'instantly' iff seconds < 1;
\* otherwise '<N> <unit>' with the unit of the range of the seconds, N the
\* value in that unit rounded to the nearest integer, and the unit word in
\* the singular exactly when N is 1.
C18_FormatAsStated ==
    CheckReturned =>
        \A estimate \in CrackTimes :
            IF DecLT(estimate.seconds, DecOne)
            THEN estimate.humanReadable = Instantly
            ELSE /\ IsStatedCount(estimate.seconds, estimate.humanReadable)
                 /\ estimate.humanReadable.suffix = ""
                       <=> estimate.humanReadable.count = DecOne

\* What the code does: as stated, but in the range of the seconds the unit
\* word is in the singular exactly when the seconds are 1 before rounding.
C18_SecondsPluralUnrounded ==
    CheckReturned =>
        \A estimate \in CrackTimes :
            IF DecLT(estimate.seconds, DecOne)
            THEN estimate.humanReadable = Instantly
            ELSE /\ IsStatedCount(estimate.seconds, estimate.humanReadable)
                 /\ estimate.humanReadable.suffix = ""
                       <=> IF estimate.humanReadable.unit = "second"
                           THEN DecEq(estimate.seconds, DecOne)
                           ELSE estimate.humanReadable.count = DecOne

\* '1 seconds' has been returned.
C18_OneSeconds ==
    /\ CheckReturned
    /\ \E estimate \in CrackTimes :
          /\ estimate.humanReadable.unit = "second"
          /\ estimate.humanReadable.count = DecOne
          /\ estimate.humanReadable.suffix = "s"

(***************************************************************************)
(* Claims about the email functions.                                       *)
(***************************************************************************)
\* The calls that ask getDisposableDomains() for the domains
AsksForDomains ==
    {"initializeCache", "isDisposableEmailDomainAsync", "validateEmail"}

\* The call that has returned had asked for the domains and its fetch failed
FetchFailed ==
    /\ pc = "returned"
    /\ op \in AsksForDomains
    /\ result.fetch \in FetchFailures

\* The set the lookup falls back on in the state: the cached set if there
\* is one, otherwise the built-in one
Available ==
    IF disposableDomainsCache.cached
    THEN disposableDomainsCache.domains
    ELSE FALLBACK_DISPOSABLE_DOMAINS

\* C19: when the fetch of the domain list fails (network error, timeout or
\* unparsable body), getDisposableDomains and isDisposableEmailDomainAsync
\* do not reject: they answer from the set cached before if there is one
\* and otherwise from the built-in fallback set, and the failed fetch leaves
\* the cache and lastFetchTime as they were.
C19_DegradesNotFails ==
    [][(pc = "idle" /\ FetchFailed')
           => /\ result'.kind = "resolved"
              /\ result'.domains = Available
              /\ op' = "isDisposableEmailDomainAsync"
                     => result'.value
                            = (ToLowerCase(args'.domain) \in Available)
              /\ disposableDomainsCache' = disposableDomainsCache
              /\ lastFetchTime' = lastFetchTime]_vars

\* A failed fetch has been answered from a cached set: a domain the
\* fallback set does not hold is found disposable.
C19_Witness ==
    /\ FetchFailed
    /\ op = "isDisposableEmailDomainAsync"
    /\ disposableDomainsCache.cached
    /\ ToLowerCase(args.domain) \notin FALLBACK_DISPOSABLE_DOMAINS
    /\ result.value = TRUE

\* A failed fetch has been answered from the fallback set.
C19_FromFallback ==
    /\ FetchFailed
    /\ op = "isDisposableEmailDomainAsync"
    /\ ~disposableDomainsCache.cached
    /\ result.value = TRUE

\* validateEmail has returned for an email whose trimmed, lower-cased form
\* fails the syntax validation
InvalidValidated ==
    /\ pc = "returned"
    /\ op = "validateEmail"
    /\ ~ValidateEmailSyntax(ToLowerCase(Trim(args.email)))

\* C20: for every email whose trimmed, lower-cased form fails syntax
\* validation, validateEmail makes no domain or MX lookup and returns
\* domain_exists = mx_records = mailbox_exists = false, score 0 and status
\* INVALID, with the "Email format is invalid" message among its
\* suggestions, whatever the disposable and role-based checks answer.
C20_InvalidSyntaxScoresZero ==
    InvalidValidated
        => /\ result.kind = "resolved"
           /\ result.lookups = 0
           /\ ~result.value.validations.syntax
           /\ ~result.value.validations.domain_exists
           /\ ~result.value.validations.mx_records
           /\ ~result.value.validations.mailbox_exists
           /\ result.value.score = 0
           /\ result.value.status = "INVALID"
           /\ result.value.suggestions.defined
           /\ SuggestFormat \in SeqToSet(result.value.suggestions.list)

\* An email of invalid syntax that is both disposable and role-based
C20_Witness ==
    /\ InvalidValidated
    /\ result.value.validations.is_disposable
    /\ result.value.validations.is_role_based

\* An email of valid syntax is looked up, and may be found valid
C20_ValidLookedUp ==
    /\ pc = "returned"
    /\ op = "validateEmail"
    /\ result.lookups = 4
    /\ result.value.status = "VALID"
    /\ result.value.email # args.email

(***************************************************************************)
(* Claims about the keyspace.  checkPassword computes it from the          *)
(* lastIndex fields of the state it is called in.                          *)
(***************************************************************************)
\* A step in which checkPassword returns
ChecksPassword == pc' = "returned" /\ op' = "checkPassword"

\* The password is an entry of the common or of the extended lexicon
InLexicon(password) ==
    ToLowerCase(password) \in COMMON_PASSWORDS \cup ExtendedSet

\* The leet-normalized password is an entry of the extended lexicon
LeetInLexicon(password) == NormalizeLeetSpeak(password) \in ExtendedSet

\* calculateKeyspace(analysis, password) as checkPassword calls it
KeyspaceOf(password, indexes) ==
    CalculateKeyspace(AnalyzePassword(password), password, indexes).value

\* The product of the penalties of the keyspace computation
PenaltiesOf(password, indexes) ==
    PatternPenalty(CalculateAdvancedPatternPenalty(password, indexes).value,
                   password)

\* C21: the short-circuits of calculateKeyspace are taken in priority
\* order: it returns 1 when the lower-cased password is an entry of the
\* common or of the extended lexicon; otherwise min(1000, 10 x length) when
\* the leet-normalized password is an entry of the extended lexicon; and
\* only otherwise max(1, charsetSize^length x penalties).
C21_KeyspacePriority ==
    [][ChecksPassword =>
          \E password \in {args'.password} :
          \E keyspace \in {KeyspaceOf(password, lastIndex)} :
              IF InLexicon(password) THEN keyspace = DecOne
              ELSE IF LeetInLexicon(password)
              THEN keyspace = DecInt(Min(1000, 10 * Len(password)))
              ELSE keyspace
                     = DecMax(DecOne,
                              DecMul(MathPow(CharsetSizeOf(password),
                                             Len(password)),
                                     PenaltiesOf(password, lastIndex)))]_vars

\* A password that is no entry of a lexicon, and whose leet-normalized form
\* is one, has been checked
C21_Witness ==
    /\ pc = "returned"
    /\ op = "checkPassword"
    /\ ~InLexicon(args.password)
    /\ LeetInLexicon(args.password)

\* An entry of the extended lexicon alone has been checked
C21_ExtendedOnly ==
    /\ pc = "returned"
    /\ op = "checkPassword"
    /\ ToLowerCase(args.password) \in ExtendedSet \ COMMON_PASSWORDS

\* A password that reaches the penalties has been checked
C21_Penalized ==
    /\ pc = "returned"
    /\ op = "checkPassword"
    /\ ~InLexicon(args.password)
    /\ ~LeetInLexicon(args.password)
    /\ Len(args.password) > 8

(***************************************************************************)
(* Claims about the penalties.                                             *)
(***************************************************************************)
\* The password reaches the penalties of calculateKeyspace
Penalized(password) == ~InLexicon(password) /\ ~LeetInLexicon(password)

\* The factor the topic words contribute to the composite penalty
TopicFactor(password) == CategoryPenalty(DecOne, ToLowerCase(password), 1)

\* The categories of COMMON_WORDS with a word in the password
TopicCategories(password) ==
    {c \in 1..Len(COMMON_WORDS) :
        CategoryHit(ToLowerCase(password), COMMON_WORDS[c])}

\* C22: the topic-word factor 0.5 is applied at most once per password:
\* the topic words contribute a factor of 1 or of 0.5 to the composite
\* penalty, however many categories have a word in the password.
C22_TopicFactorOnce ==
    (CheckReturned /\ Penalized(args.password))
        => \/ DecEq(TopicFactor(args.password), DecOne)
           \/ DecEq(TopicFactor(args.password), Dec(<<5>>, 1))

\* What the code does: one factor 0.5 for every category with a word in
\* the password
C22_TopicFactorPerCategory ==
    (CheckReturned /\ Penalized(args.password))
        => DecEq(TopicFactor(args.password),
                 DecHalfPow(Cardinality(TopicCategories(args.password))))

\* A password with words of two categories has been checked
C22_TwoCategories ==
    /\ CheckReturned
    /\ Penalized(args.password)
    /\ Cardinality(TopicCategories(args.password)) >= 2

\* The lengths of adjacent repeated blocks that the password has
RepeatedBlockLengths(password) ==
    {len \in 2..(Len(password) \div 2) : RepeatedBlock(password, len)}

\* The values of the statistical penalty when each of its two factors is
\* applied at most once: 1, 0.3, 0.2 and 0.06
OnceStatisticalPenalties ==
    {DecOne, Dec(<<3>>, 1), Dec(<<2>>, 1), Dec(<<6>>, 2)}

\* C23: the adjacent-repeated-block factor 0.2 is applied at most once, so
\* the statistical penalty of a checked password is one of 1, 0.3, 0.2 and
\* 0.06.
C23_StatisticalPenaltyValues ==
    (CheckReturned /\ Penalized(args.password))
        => \E penalty \in OnceStatisticalPenalties :
              DecEq(CalculateStatisticalPenalty(args.password), penalty)

\* A password with adjacent repeated blocks of two lengths has been checked
C23_TwoBlockLengths ==
    /\ CheckReturned
    /\ Penalized(args.password)
    /\ Cardinality(RepeatedBlockLengths(args.password)) >= 2

\* if (EXTENDED_COMMON_PASSWORDS.has(normalizedPassword)) penalty *= 0.001:
\* the composite penalty of the password includes the lexicon factor
LexiconFactorApplied(password) ==
    Const(NormalizeLeetSpeak(password), LAMBDA normalizedPassword :
        LeetAndKeyboardPenalty(password, ToLowerCase(password))
          # Times(Times(DecOne, normalizedPassword # ToLowerCase(password),
                        3, 1),
                  ContainsKeyboardPattern(password), 1, 1))

\* C24: the composite penalty of a checked password includes the factor
\* 0.001 exactly when an entry of the lexicon occurs in the leet-normalized
\* lower-cased password, that is when extractPotentialBaseWords finds a
\* word.
C24_LexiconFactorOnSubstring ==
    (CheckReturned /\ Penalized(args.password))
        => (LexiconFactorApplied(args.password)
              <=> Len(ExtractPotentialBaseWords(args.password)) > 0)

\* A password that holds an entry of the lexicon and more has been checked
C24_HoldsEntry ==
    /\ CheckReturned
    /\ Penalized(args.password)
    /\ Len(ExtractPotentialBaseWords(args.password)) > 0

(***************************************************************************)
(* Claims about the smart-attack keyspace.                                 *)
(***************************************************************************)
\* The entries of four characters or more in the leet-normalized password
DictionarySubstrings(password) ==
    {word \in ExtendedSet :
        /\ Len(word) >= 4
        /\ Includes(NormalizeLeetSpeak(ToLowerCase(password)), word)}

LongestOf(words) ==
    CHOOSE longest \in {Len(word) : word \in words} :
        \A word \in words : Len(word) <= longest

\* One of the patterns matches somewhere in the password
ShapePresent(patterns, password) ==
    \E k \in 1..Len(patterns) : \E i \in 1..Len(password) :
        MatchLength(patterns[k].shape, password, i) > 0

\* The smart-attack keyspace by first-match priority
SmartKeyspaceByPriority(password, keyspace) ==
    IF DictionarySubstrings(password) # {}
    THEN DecMin(keyspace,
                DecMul(DecInt(Cardinality(ExtendedSet)),
                       MathPow(100,
                               Len(password)
                                 - LongestOf(DictionarySubstrings(password)))))
    ELSE IF \/ ShapePresent(DATE_PATTERNS, password)
            \/ ShapePresent(PHONE_PATTERNS, password)
    THEN DecMin(keyspace, DecMul(MathPow(10, Len(password)), DecInt(1000)))
    ELSE IF ContainsKeyboardPattern(password)
    \* 1000^(length / 3)
    THEN DecMin(keyspace, MathPow(10, Len(password)))
    ELSE keyspace

\* C25: the smart-attack keyspace is chosen by first-match priority
\* (dictionary substrings, then a date or phone shape, then a keyboard
\* pattern, else the keyspace unchanged) and never exceeds the
\* penalty-adjusted keyspace; the crack times are computed from it and the
\* score is the one calculateScore gives without it.
C25_SmartKeyspacePriority ==
    [][ChecksPassword =>
          \E password \in {args'.password} :
          \E keyspace \in {KeyspaceOf(password, lastIndex)} :
          \E smart \in {SmartKeyspaceByPriority(password, keyspace)} :
          \E guesses \in {DecMax(DecOne, DecScale(smart, 5, 1))} :
              /\ DecCmp(smart, keyspace) <= 0
              /\ IsQuotient(result'.value.crackTime.online.seconds,
                            guesses, OnlineRateExponent)
              /\ IsQuotient(result'.value.crackTime.offline.seconds,
                            guesses, OfflineRateExponent)
              /\ IsQuotient(result'.value.crackTime.offlineFast.seconds,
                            guesses, OfflineFastRateExponent)
              /\ result'.value.score
                   = CalculateScore(AnalyzePassword(password), password)]_vars

\* A password with a date shape and a keyboard pattern and no dictionary
\* substring has been checked, and the date bound is below its keyspace
C25_Witness ==
    /\ CheckReturned
    /\ DictionarySubstrings(args.password) = {}
    /\ ShapePresent(DATE_PATTERNS, args.password)
    /\ ContainsKeyboardPattern(args.password)
    /\ DecLT(DecMul(MathPow(10, Len(args.password)), DecInt(1000)),
             KeyspaceOf(args.password, FreshLastIndex))

\* A password with dictionary substrings whose bound is below its keyspace
C25_Dictionary ==
    /\ CheckReturned
    /\ Penalized(args.password)
    /\ DictionarySubstrings(args.password) # {}
    /\ DecLT(SmartKeyspaceByPriority(args.password,
                                     KeyspaceOf(args.password, FreshLastIndex)),
             KeyspaceOf(args.password, FreshLastIndex))

\* A password with a keyboard pattern alone, bounded by it
C25_Keyboard ==
    /\ CheckReturned
    /\ DictionarySubstrings(args.password) = {}
    /\ ~ShapePresent(DATE_PATTERNS, args.password)
    /\ ~ShapePresent(PHONE_PATTERNS, args.password)
    /\ ContainsKeyboardPattern(args.password)
    /\ DecLT(MathPow(10, Len(args.password)),
             KeyspaceOf(args.password, FreshLastIndex))

\* A password with none of the three
C25_Unchanged ==
    /\ CheckReturned
    /\ Penalized(args.password)
    /\ DictionarySubstrings(args.password) = {}
    /\ ~ShapePresent(DATE_PATTERNS, args.password)
    /\ ~ShapePresent(PHONE_PATTERNS, args.password)
    /\ ~ContainsKeyboardPattern(args.password)
    /\ Len(args.password) >= 8

(***************************************************************************)
(* Claims about the shuffle.                                               *)
(***************************************************************************)
\* The number of positions of str that hold the character c
CountOf(str, c) == Cardinality({i \in 1..Len(str) : str[i] = c})

\* shuffled holds the characters of str, each as often as str does
IsPermutationOf(shuffled, str) ==
    /\ Len(shuffled) = Len(str)
    /\ \A i \in 1..Len(str) : CountOf(shuffled, str[i]) = CountOf(str, str[i])

\* The draws j of a shuffle of n positions: the one at index i is in 0..i
DrawsInRange(rnd, n) ==
    \A k \in 1..(n - 1) :
        GetSecureRandomInt(rnd[k], n - k + 1) \in 0..(n - k)

\* The positions 0 .. n-1
Positions(n) == [i \in 1..n |-> i - 1]

\* C26: the shuffle is a correct Fisher-Yates: whatever the draws, each j
\* is in 0..i and the output is a permutation of the input; and every
\* permutation of the n positions is the output of some sequence of draws.
C26_FisherYates ==
    (pc = "returned" /\ op = "shuffleString")
        => /\ DrawsInRange(args.rnd, Len(args.str))
           /\ IsPermutationOf(result.value, args.str)
           /\ \A target \in Permutations({i - 1 : i \in 1..Len(args.str)}) :
                 \E rnd \in ShuffleTapes(args.str) :
                    \A i \in 1..Len(args.str) :
                       ShuffleString(Positions(Len(args.str)), rnd, 0)[i]
                          = target[i - 1]

\* A string of MaxShuffle positions has been shuffled into another order
C26_Witness ==
    /\ pc = "returned"
    /\ op = "shuffleString"
    /\ Len(args.str) = MaxShuffle
    /\ result.value # args.str
    /\ \E k \in DOMAIN args.rnd : args.rnd[k] = MaxRandom

(***************************************************************************)
(* Claims about the keyboard patterns.                                     *)
(***************************************************************************)
\* The entries of KEYBOARD_PATTERNS that are walks: two keys or more
KeyboardWalks ==
    {KEYBOARD_PATTERNS[k] : k \in {k \in 1..Len(KEYBOARD_PATTERNS) :
                                     Len(KEYBOARD_PATTERNS[k]) >= 2}}

\* The lower-cased password contains a walk, forwards or reversed
ContainsKeyboardWalk(password) ==
    \E walk \in KeyboardWalks :
        \/ Includes(ToLowerCase(password), walk)
        \/ Includes(ToLowerCase(password), Reverse(walk))

\* C27: containsKeyboardPattern is true of a checked password exactly when
\* the lower-cased password contains, forwards or reversed, a walk of at
\* least two adjacent keys; a password whose only match is a single key,
\* such as a lone 'p', is not flagged.
C27_FlagsWalksOnly ==
    CheckReturned
        => (ContainsKeyboardPattern(args.password)
              <=> ContainsKeyboardWalk(args.password))

\* What the code does: it flags a password exactly when it contains a walk
\* or the letter 'p'
C27_FlagsWalksAndP ==
    CheckReturned
        => (ContainsKeyboardPattern(args.password)
              <=> \/ ContainsKeyboardWalk(args.password)
                  \/ Includes(ToLowerCase(args.password), <<"p">>))

\* A password whose only match is the key 'p' has been checked, and its
\* smart-attack keyspace is the keyboard bound
C27_LoneP ==
    /\ CheckReturned
    /\ Penalized(args.password)
    /\ Includes(ToLowerCase(args.password), <<"p">>)
    /\ ~ContainsKeyboardWalk(args.password)
    /\ DictionarySubstrings(args.password) = {}
    /\ ~ShapePresent(DATE_PATTERNS, args.password)
    /\ ~ShapePresent(PHONE_PATTERNS, args.password)
    /\ result.value.crackTime.online.seconds
         = DecScale(DecScale(MathPow(10, Len(args.password)), 5, 1),
                    1, OnlineRateExponent)

(***************************************************************************)
(* Claims about the suggestions.                                           *)
(***************************************************************************)
\* None of the conditions that add a warning or an improvement holds, but
\* for the one on the entropy
NothingToImprove(password) ==
    /\ ToLowerCase(password) \notin COMMON_PASSWORDS
    /\ Len(password) >= 12
    /\ TestUpper(password)
    /\ TestLower(password)
    /\ TestDigit(password)
    /\ TestSymbol(password)

\* C28: checkPassword returns a non-empty list of suggestions for every
\* password: when none of the warning conditions holds (12 characters or
\* more, of all four classes, and no common password), the entropy is at
\* least 60 bits and the list is the encouragement alone.
C28_SuggestionsNonEmpty ==
    CheckReturned
        => /\ Len(result.value.suggestions) > 0
           /\ NothingToImprove(args.password)
                => /\ NumGE(CalculateEntropy(args.password), Num(60 * Micro))
                   /\ result.value.suggestions = <<SuggestGreat>>

\* A password with nothing to improve has been checked
C28_Witness ==
    /\ CheckReturned
    /\ NothingToImprove(args.password)
    /\ Len(args.password) = 12

(***************************************************************************)
(* Claims about the candidates of generateStrongPassword.                  *)
(***************************************************************************)
\* The password has the length asked for and holds exactly the enabled
\* classes
HoldsEnabledClasses(password) ==
    /\ Len(password) = OptLength
    /\ TestLower(password) <=> OptLowercase
    /\ TestUpper(password) <=> OptUppercase
    /\ TestDigit(password) <=> OptNumbers
    /\ TestSymbol(password) <=> OptSymbols

\* C29: the 5 candidates of generateStrongPassword all have the same simple
\* entropy, each having the length asked for and exactly the enabled
\* classes, so the fold keeps its accumulator and the result is the first
\* candidate generated.
C29_FirstCandidateReturned ==
    (StrongReturned /\ result.kind = "ok") =>
        \E candidates \in {StrongCandidates.value} :
            /\ \A i \in 1..Iterations :
                  /\ HoldsEnabledClasses(candidates[i])
                  /\ CalculateSimpleEntropy(candidates[i])
                        = CalculateSimpleEntropy(candidates[1])
            /\ result.value = candidates[1]

\* Five different candidates of three classes have been generated
C29_Witness ==
    /\ StrongReturned
    /\ result.kind = "ok"
    /\ ~OptSymbols /\ OptLowercase /\ OptUppercase /\ OptNumbers
    /\ OptLength = MaxLength
    /\ \A i, j \in 1..Iterations :
          i # j => StrongCandidates.value[i] # StrongCandidates.value[j]

(***************************************************************************)
(* Claims about the cache of disposable domains under concurrent calls.    *)
(***************************************************************************)
\* disposableDomainsCache is set exactly when lastFetchTime is
CachedIffFetched == disposableDomainsCache.cached <=> lastFetchTime # 0

\* C30: under every interleaving of calls that await a fetch,
\* lastFetchTime never decreases, and the cache is set exactly when
\* lastFetchTime is not 0.
C30_LastFetchTimeNeverDecreases ==
    [][lastFetchTime' >= lastFetchTime /\ CachedIffFetched']_vars

\* What the code does keep: the cache and lastFetchTime are written
\* together, and lastFetchTime is never later than the clock
C30_WrittenTogether ==
    /\ CachedIffFetched
    /\ lastFetchTime <= clock

\* A call of getDisposableDomains() that began before the time of the last
\* fetch still awaits its request
C30_EarlierCallAwaits ==
    /\ disposableDomainsCache.cached
    /\ \E i \in 1..Len(fetching) :
          /\ fetching[i].op # "refreshDisposableDomainsCache"
          /\ fetching[i].now < lastFetchTime

====
